---- MODULE Spec2Model ----
(***************************************************************************)
(* Review / store submission and moderation of hdu-comment (Go backend).   *)
(*                                                                         *)
(* The persistent state is the committed content of the stores, reviews    *)
(* and idempotency_keys tables.  Every HTTP request is served by one of    *)
(* the processes in Procs; a request advances by the database operations   *)
(* its handler performs, one action per operation, so that requests        *)
(* interleave exactly at the points where the Go code touches the          *)
(* database.  Rows written through a gorm transaction handle stay in the   *)
(* request (txStores) until the transaction commits.                       *)
(***************************************************************************)
EXTENDS Integers, Sequences, FiniteSets, TLC

VARIABLES
    stores,     \* committed rows of table stores
    reviews,    \* committed rows of table reviews (soft-deleted rows included)
    idem,       \* committed rows of table idempotency_keys
    req,        \* per process: the request it is serving and its locals
    sent,       \* per idempotency key: the response its handler produced
    images,     \* committed rows of table review_images (soft-deleted rows included)
    blobs       \* keys of the files held by the storage collaborator

vars == <<stores, reviews, idem, req, sent, images, blobs>>

----------------------------------------------------------------------------
(* Bounds of the exploration *)

MaxStores == 2
MaxReviews == 2
ModStores == 1
ModReviews == 1
IdemStores == 2
IdemReviews == 2
ConcStores == 2
ConcReviews == 2
ExpiryStores == 1
ExpiryReviews == 2
KeyStores == 1
KeyReviews == 2
ReadStores == 1
ReadReviews == 2
RatingStores == 1
RatingReviews == 2
RatingConcStores == 1
RatingConcReviews == 2
FaultStores == 1
FaultReviews == 2
BindStores == 1
BindReviews == 2
OriginStores == 1
OriginReviews == 1
MaxImages == 2
PageStores == 3
PageReviews == 2
MaxParam == 3
IntBits == 15
AggregateStores == 1
AggregateReviews == 2
OrphanStores == 2
OrphanReviews == 2
DecideStores == 1
DecideReviews == 1
EditStores == 1
EditReviews == 1
ReasonStores == 1
ReasonReviews == 1
DeleteStores == 1
DeleteReviews == 2

Procs == {1, 2}

Users == {"u1", "u2"}
Admin == "adm"

(* Strings are sequences of characters; " " is the white space that
   strings.TrimSpace removes. *)
RawNames == { <<"a">>, <<" ", "a">>, <<"b">> }
RawAddrs == { <<"x", " ">> }
RawCats == { <<>>, <<"f">> }
RawReasons == { <<>>, <<" ", "r", " ">> }

OneReason == { <<"r">> }

(* raw names of one store *)
SameName == { <<"a">>, <<" ", "a">> }

OneBody == { [content |-> "c1", rating |-> 2] }
Bodies == { [content |-> "c1", rating |-> 2], [content |-> "c2", rating |-> 4] }

(* bodies with ratings at and beyond the ends of the accepted range *)
EdgeRatings == {0 - 1, 0, 5, 6}
EdgeBodies == { [content |-> "c1", rating |-> x] : x \in EdgeRatings }

NoKey == ""
Keys == {"k1"}

NoId == 0

----------------------------------------------------------------------------
(* strings.TrimSpace *)

RECURSIVE TrimLeft(_)
TrimLeft(s) ==
    IF s # <<>> /\ Head(s) = " " THEN TrimLeft(Tail(s)) ELSE s

RECURSIVE TrimRight(_)
TrimRight(s) ==
    IF s # <<>> /\ s[Len(s)] = " " THEN TrimRight(SubSeq(s, 1, Len(s) - 1)) ELSE s

(* variant: only the leading white space is removed *)
TrimSpaceLeading(s) == TrimLeft(s)

TrimSpace(s) == TrimRight(TrimLeft(s))

(* hex(sha256(body)): an injective image of the raw body *)
hashRequestBody(body) == <<"sha256", body>>

----------------------------------------------------------------------------
(* Status values: models.StoreStatus, models.ReviewStatus,
   models.IdempotencyKeyStatus *)

StatusPending == "pending"
StatusApproved == "approved"
StatusRejected == "rejected"

IdempotencyKeyStatusInProgress == "in_progress"
IdempotencyKeyStatusCompleted == "completed"

(* Error texts *)
ErrReviewAlreadyProcessed == "review already processed"
ErrStoreAlreadyProcessed == "store already processed"
ErrDuplicateReview == "user has already reviewed this store"
ErrAlreadyReviewed == "you have already reviewed this store"
ErrStoreExists == "store already exists"
ErrStoreFields == "store name, address, and category are required"
ErrDatabase == "database error"
ErrStorage == "storage error"
ErrInvalidPayload == "invalid payload"
ErrInvalidAutoCreate == "invalid payload for auto-create"
ErrNotFound == "not found"
ErrNotAuthorized == "not authorized"
ErrInProgress == "request with this key is already in progress"
ErrCreateKey == "failed to create idempotency key"
ErrNotAccessible == "review not accessible"

----------------------------------------------------------------------------
(* Repository queries over the committed tables *)

LiveReviews == { r \in reviews : ~r.deleted }

(* variant: the lookup sees approved stores only *)
FindApprovedByNameAndAddress(name, address) ==
    { s \in stores : s.name = name /\ s.address = address /\ s.status = "approved" }

(* StoreRepository.FindByNameAndAddress: the rows matching exactly *)
FindByNameAndAddress(name, address) ==
    { s \in stores : s.name = name /\ s.address = address }

(* ReviewRepository.FindByUserAndStore: soft-deleted rows are skipped *)
FindByUserAndStore(userID, storeID) ==
    { r \in LiveReviews : r.author = userID /\ r.store = storeID }

(* ReviewRepository.FindByID / StoreRepository.FindByID *)
ReviewFindByID(id) == { r \in LiveReviews : r.id = id }
StoreFindByID(id) == { s \in stores : s.id = id }

(* IdempotencyKeyRepository.FindByKey: key = ? AND expires_at > now *)
FindByKey(key) == { k \in idem : k.key = key /\ ~k.expired }

(* variant: column key without the unique index *)
NoKeyIndex(key) == FALSE

(* uniqueIndex of column Key of table idempotency_keys: it covers every
   row, expired ones too *)
ViolatesKeyIndex(key) == \E k \in idem : k.key = key

(* variant: table reviews without the unique index *)
NoUserStoreIndex(review) == FALSE

(* Unique index idx_user_store of table reviews: it covers every row,
   soft-deleted ones too. *)
ViolatesUserStoreIndex(review) ==
    \E r \in reviews : r.author = review.author /\ r.store = review.store

(* variant: table reviews without the foreign key to stores *)
NoStoreForeignKey(storeID) == FALSE

(* Review.Store, foreignKey:StoreID, on a database opened with _fk=1: a row
   of reviews refers to a row of stores *)
ViolatesStoreForeignKey(storeID) == \A s \in stores : s.id # storeID

(* the same foreign key seen from stores: a row of stores that rows of
   reviews, soft-deleted ones too, refer to cannot be deleted *)
RestrictsStoreDelete(storeID) == \E x \in reviews : x.store = storeID

(* ReviewRepository.Create: the table after the insert, or the table
   unchanged when the unique index refuses the row *)
ReviewCreateOk(review) == ~ViolatesUserStoreIndex(review)

(* variant: the row is written through the repository's own handle *)
StoreRepoCreateNoTx(tx, store) ==
    [committed |-> stores \cup {store}, pending |-> {}]

(* StoreRepository.Create(tx, store): with a transaction handle the row is
   written inside the transaction, without one it is committed at once. *)
StoreRepoCreate(tx, store) ==
    IF tx THEN [committed |-> stores, pending |-> {store}]
          ELSE [committed |-> stores \cup {store}, pending |-> {}]

(* db.Transaction: the rows written through the handle are committed when
   the function returns nil and dropped when it returns an error. *)
TxCommit(pending) == stores \cup pending

(* variant: the error is swallowed and the transaction commits *)
TxRollbackCommits(pending) == stores \cup pending

TxRollback(pending) == stores

(* Store.BeforeCreate / Review.BeforeCreate: uuid.New() yields an identifier
   no row, committed or not, carries yet. *)
UsedStoreIds ==
    { s.id : s \in stores \cup UNION { req[p].txStores : p \in Procs } }
        \cup { r.store : r \in reviews }
        \cup ({ req[p].in.store : p \in Procs } \ {NoId})
NextStoreId == CHOOSE i \in 1..(Cardinality(UsedStoreIds) + 1) :
                   i \notin UsedStoreIds /\ \A j \in 1..(i - 1) : j \in UsedStoreIds
NextReviewId == Cardinality(reviews) + 1

----------------------------------------------------------------------------
(* Requests *)

NoInput == [name |-> <<>>, address |-> <<>>, category |-> <<>>, isAdmin |-> FALSE,
            store |-> NoId, review |-> NoId, body |-> [content |-> "", rating |-> 0],
            op |-> "", reason |-> <<>>, role |-> "", status |-> "",
            page |-> [kind |-> "absent", n |-> 0], pageSize |-> [kind |-> "absent", n |-> 0]]

NoBody == [detail |-> "", store |-> NoId, review |-> NoId]

Idle == [pc |-> "idle", kind |-> "", user |-> "", key |-> NoKey, in |-> NoInput,
         sid |-> NoId, newStore |-> NoId, txStores |-> {}, code |-> 0, body |-> NoBody,
         ran |-> FALSE, list |-> {}, result |-> [averageRating |-> 0, totalReviews |-> 0],
         ratingErr |-> FALSE, loaded |-> {},
         paged |-> [data |-> <<>>, page |-> 0, pageSize |-> 0, total |-> 0, totalPages |-> 0],
         before |-> [stores |-> {}, reviews |-> {}, idem |-> {}, images |-> {}, blobs |-> {}]]

Problem(status, detail) == [code |-> status, body |-> [detail |-> detail, store |-> NoId, review |-> NoId]]

Active == { p \in Procs : req[p].pc # "idle" }

(* A request arrives at process p while fewer than sc.limit are being
   served.  sc is the scenario explored: how many requests are served at a
   time, the inputs the requests draw from and the size of the tables. *)
Arrive(p, sc) ==
    /\ req[p].pc = "idle"
    /\ Cardinality(Active) < sc.limit

(* The tables stay within sc.maxStores and sc.maxReviews rows: a request that may
   insert a row is received only while there is room for it. *)
StoreRoom(sc) ==
    Cardinality(stores) + Cardinality({ q \in Procs : req[q].kind \in {"create", "auto"} }) < sc.maxStores
ReviewRoom(sc) ==
    Cardinality(reviews) + Cardinality({ q \in Procs : req[q].kind \in {"submit", "auto"} }) < sc.maxReviews

(* The pre-state of the request, kept while requests are served one at a
   time (under concurrency the tables change under the request anyway). *)
Snapshot(sc) ==
    IF sc.limit = 1 THEN [stores |-> stores, reviews |-> reviews, idem |-> idem,
                          images |-> images, blobs |-> blobs]
                    ELSE [stores |-> {}, reviews |-> {}, idem |-> {}, images |-> {}, blobs |-> {}]

Receive(sc, kind, user, key, in, pc) ==
    [Idle EXCEPT !.pc = pc, !.kind = kind, !.user = user, !.key = key, !.in = in,
                 !.before = Snapshot(sc)]

Respond(r, resp) == [r EXCEPT !.pc = "done", !.code = resp.code, !.body = resp.body]

Init ==
    /\ stores = {}
    /\ reviews = {}
    /\ idem = {}
    /\ req = [p \in Procs |-> Idle]
    /\ sent = {}
    /\ images = {}
    /\ blobs = {}

----------------------------------------------------------------------------
(* POST /stores and POST /admin/stores: StoreService.CreateStore *)

NewStore(id, name, address, status, createdBy, autoCreated) ==
    [id |-> id, name |-> name, address |-> address, status |-> status,
     reason |-> <<>>, createdBy |-> createdBy, autoCreated |-> autoCreated,
     averageRating |-> 0, totalReviews |-> 0]

(* variant: every store is created approved *)
InitialStatusApproved(isAdmin) == StatusApproved

(* StoreService.CreateStore: the status of the new store *)
InitialStatus(isAdmin) == IF isAdmin THEN StatusApproved ELSE StatusPending

(* Validation and the lookup of an existing store.  StoreHandler.CreateStore
   (POST /stores, for the callers of sc.users) passes isAdmin = false,
   StoreAdminHandler.Create (POST /admin/stores, for the administrator)
   passes true. *)
CreateStoreFind(p, sc) ==
    /\ Arrive(p, sc)
    /\ StoreRoom(sc)
    /\ \E user \in sc.users \cup {Admin}, isAdmin \in BOOLEAN, name \in sc.names,
          address \in RawAddrs, category \in RawCats :
        /\ isAdmin => user = Admin
        /\ ~isAdmin => user \in sc.users
        /\ LET in == [NoInput EXCEPT !.name = name, !.address = address, !.category = category,
                                      !.isAdmin = isAdmin]
               r == Receive(sc, "create", user, NoKey, in, "cs_insert")
           IN  req' = [req EXCEPT ![p] =
                   IF TrimSpace(name) = <<>> \/ TrimSpace(address) = <<>> \/ TrimSpace(category) = <<>>
                   THEN Respond(r, Problem(400, ErrStoreFields))
                   ELSE IF FindByNameAndAddress(TrimSpace(name), TrimSpace(address)) # {}
                   THEN Respond(r, Problem(409, ErrStoreExists))
                   ELSE r]
    /\ UNCHANGED <<stores, reviews, idem, sent, images, blobs>>

(* The insert of the new store *)
CreateStoreInsert(p) ==
    /\ req[p].pc = "cs_insert"
    /\ LET r == req[p]
           store == NewStore(NextStoreId, TrimSpace(r.in.name), TrimSpace(r.in.address),
                             InitialStatus(r.in.isAdmin),
                             r.user, FALSE)
       IN  /\ stores' = stores \cup {store}
           /\ req' = [req EXCEPT ![p] =
                  Respond([r EXCEPT !.ran = TRUE],
                          [code |-> 201, body |-> [detail |-> "", store |-> store.id, review |-> NoId]])]
    /\ UNCHANGED <<reviews, idem, sent, images, blobs>>

----------------------------------------------------------------------------
(* POST /stores/{id}/reviews behind the Idempotency middleware *)

NewReview(id, storeID, authorID, body) ==
    [id |-> id, store |-> storeID, author |-> authorID, content |-> body.content,
     rating |-> body.rating, status |-> StatusPending, reason |-> <<>>, deleted |-> FALSE]

HandlerEntry(kind) == IF kind = "auto" THEN "ac_find" ELSE "sub_check"

(* The request enters the middleware; without an Idempotency-Key header it
   goes straight to the handler. *)
ReceiveSubmit(p, sc) ==
    /\ Arrive(p, sc)
    /\ ReviewRoom(sc)
    /\ \E user \in sc.users, key \in sc.keys, body \in sc.bodies, s \in stores :
        req' = [req EXCEPT ![p] =
            Receive(sc, "submit", user, key, [NoInput EXCEPT !.store = s.id, !.body = body],
                    IF key = NoKey THEN HandlerEntry("submit") ELSE "idem_get")]
    /\ UNCHANGED <<stores, reviews, idem, sent, images, blobs>>

(* The same request for a store id that no row of stores carries: the id of
   a store that never was or that has been deleted *)
ReceiveSubmitUnknownStore(p, sc) ==
    /\ Arrive(p, sc)
    /\ ReviewRoom(sc)
    /\ \E user \in sc.users, body \in sc.bodies :
        req' = [req EXCEPT ![p] =
            Receive(sc, "submit", user, NoKey,
                    [NoInput EXCEPT !.store = NextStoreId, !.body = body],
                    HandlerEntry("submit"))]
    /\ UNCHANGED <<stores, reviews, idem, sent, images, blobs>>

ReceiveAutoCreate(p, sc) ==
    /\ Arrive(p, sc)
    /\ StoreRoom(sc)
    /\ ReviewRoom(sc)
    /\ \E user \in sc.users, key \in sc.keys, body \in sc.bodies,
          name \in sc.names, address \in RawAddrs :
        req' = [req EXCEPT ![p] =
            Receive(sc, "auto", user, key,
                    [NoInput EXCEPT !.name = name, !.address = address, !.body = body],
                    IF key = NoKey THEN HandlerEntry("auto") ELSE "idem_get")]
    /\ UNCHANGED <<stores, reviews, idem, sent, images, blobs>>

(* Idempotency: service.GetKey and the branch on the record found *)
(* variant: the replay answers 200 whatever was stored *)
IdempotencyReplayOk(record) ==
    [code |-> 200, body |-> record.body]

IdempotencyReplay(record) ==
    [code |-> record.code, body |-> record.body]

IdempotencyGet(p) ==
    /\ req[p].pc = "idem_get"
    /\ LET r == req[p]
           found == FindByKey(r.key)
       IN  \/ /\ found = {}
              /\ req' = [req EXCEPT ![p].pc = "idem_create"]
           \/ \E record \in found :
                req' = [req EXCEPT ![p] =
                    IF record.status = IdempotencyKeyStatusInProgress
                    THEN Respond(r, Problem(429, ErrInProgress))
                    ELSE Respond(r, IdempotencyReplay(record))]
    /\ UNCHANGED <<stores, reviews, idem, sent, images, blobs>>

(* The raw JSON body: the review fields, and the store fields of an
   auto-create submission; the store id of a plain submission is in the path *)
RawBody(r) == <<r.in.body, r.in.name, r.in.address>>

(* IdempotencyService.CreateKey: column key carries a unique index *)
CreateKey(key, userID, body) ==
    [key |-> key, user |-> userID, hash |-> hashRequestBody(body),
     status |-> IdempotencyKeyStatusInProgress, code |-> 0, body |-> NoBody,
     expired |-> FALSE]

IdempotencyCreate(p) ==
    /\ req[p].pc = "idem_create"
    /\ LET r == req[p]
       IN  IF ViolatesKeyIndex(r.key)
           THEN /\ req' = [req EXCEPT ![p] = Respond(r, Problem(500, ErrCreateKey))]
                /\ idem' = idem
           ELSE /\ idem' = idem \cup {CreateKey(r.key, r.user, RawBody(r))}
                /\ req' = [req EXCEPT ![p].pc = HandlerEntry(r.kind)]
    /\ UNCHANGED <<stores, reviews, sent, images, blobs>>

(* The handler has written its response: control returns to the middleware
   when the request carries a key. *)
HandlerDone(r, resp) ==
    [r EXCEPT !.pc = IF r.key = NoKey THEN "done" ELSE "idem_update",
              !.code = resp.code, !.body = resp.body, !.ran = TRUE, !.txStores = {}]

Created(storeID, reviewID) ==
    [code |-> 201, body |-> [detail |-> "", store |-> storeID, review |-> reviewID]]

(* variant: the record is completed with the code of a plain success *)
UpdateKeyOk(record, responseCode, responseBody) ==
    [record EXCEPT !.status = IdempotencyKeyStatusCompleted,
                   !.code = 200, !.body = responseBody]

(* IdempotencyService.UpdateKey *)
UpdateKey(record, responseCode, responseBody) ==
    [record EXCEPT !.status = IdempotencyKeyStatusCompleted,
                   !.code = responseCode, !.body = responseBody]

(* variant: the response is stored whatever its status *)
StatusIsAny(status) == TRUE

(* Idempotency, after c.Next(): c.Writer.Status() >= 200 && < 300 *)
StatusIsSuccess(status) == status >= 200 /\ status < 300

(* Idempotency, after c.Next(): only a 2xx response is stored *)
IdempotencyUpdate(p) ==
    /\ req[p].pc = "idem_update"
    /\ LET r == req[p]
       IN  /\ idem' = IF StatusIsSuccess(r.code)
                      THEN { IF k.key = r.key THEN UpdateKey(k, r.code, r.body) ELSE k : k \in idem }
                      ELSE idem
           /\ sent' = sent \cup {[key |-> r.key, code |-> r.code, body |-> r.body,
                                   n |-> Cardinality({ f \in sent : f.key = r.key }) + 1]}
           /\ req' = [req EXCEPT ![p].pc = "done"]
    /\ UNCHANGED <<stores, reviews, images, blobs>>

(* Time passes beyond ExpiresAt of a record (CreateKey: now + ttl).  No code
   removes the row. *)
Expire ==
    /\ \E k \in idem :
          /\ ~k.expired
          /\ idem' = (idem \ {k}) \cup {[k EXCEPT !.expired = TRUE]}
    /\ UNCHANGED <<stores, reviews, req, sent, images, blobs>>

(* binding tags of dto.CreateReviewRequest.Rating: required refuses the zero
   value of the type, then min=0 and max=5 *)
RatingMin == 0
RatingMax == 5
BindRating(rating) == rating # 0 /\ rating >= RatingMin /\ rating <= RatingMax

(* c.ShouldBindJSON into dto.CreateReviewRequest *)
BindReview(body) == body.content # "" /\ BindRating(body.rating)

(* c.ShouldBindJSON into dto.CreateReviewForNewStoreRequest: store_name and
   store_address are required as well *)
BindReviewForNewStore(in) == BindReview(in.body) /\ in.name # <<>> /\ in.address # <<>>

(* StoreHandler.CreateReview binds the body, then ReviewService.Submit makes
   the duplicate check *)
SubmitCheck(p) ==
    /\ req[p].pc = "sub_check"
    /\ LET r == req[p]
       IN  req' = [req EXCEPT ![p] =
               IF ~BindReview(r.in.body)
               THEN HandlerDone(r, Problem(400, ErrInvalidPayload))
               ELSE IF FindByUserAndStore(r.user, r.in.store) # {}
               THEN HandlerDone(r, Problem(409, ErrAlreadyReviewed))
               ELSE [r EXCEPT !.pc = "sub_insert"]]
    /\ UNCHANGED <<stores, reviews, idem, sent, images, blobs>>

(* ReviewService.Submit: the insert, refused by the unique index or by a
   failure of the database *)
SubmitInsert(p) ==
    /\ req[p].pc = "sub_insert"
    /\ \E fault \in BOOLEAN :
        LET r == req[p]
            review == NewReview(NextReviewId, r.in.store, r.user, r.in.body)
        IN  IF fault \/ ~ReviewCreateOk(review) \/ ViolatesStoreForeignKey(review.store)
            THEN /\ reviews' = reviews
                 /\ req' = [req EXCEPT ![p] = HandlerDone(r, Problem(409, ErrDatabase))]
            ELSE /\ reviews' = reviews \cup {review}
                 /\ req' = [req EXCEPT ![p] = HandlerDone(r, Created(NoId, review.id))]
    /\ UNCHANGED <<stores, idem, sent, images, blobs>>

----------------------------------------------------------------------------
(* POST /stores/{id}/reviews?autoCreate=true:
   ReviewService.CreateReviewForNewStore, one gorm transaction *)

(* 1. Find or create the store *)
AutoCreateFind(p) ==
    /\ req[p].pc = "ac_find"
    /\ LET r == req[p]
           normalizedName == TrimSpace(r.in.name)
           normalizedAddress == TrimSpace(r.in.address)
           existing == FindByNameAndAddress(normalizedName, normalizedAddress)
       IN  \/ /\ ~BindReviewForNewStore(r.in)
              /\ req' = [req EXCEPT ![p] = HandlerDone(r, Problem(400, ErrInvalidAutoCreate))]
              /\ stores' = stores
           \/ \E existingStore \in existing :
                /\ BindReviewForNewStore(r.in)
                /\ req' = [req EXCEPT ![p].pc = "ac_check", ![p].sid = existingStore.id]
                /\ stores' = stores
           \/ /\ BindReviewForNewStore(r.in)
              /\ existing = {}
              /\ LET store == NewStore(NextStoreId, normalizedName, normalizedAddress,
                                       StatusPending, r.user, TRUE)
                     created == StoreRepoCreate(TRUE, store)
                 IN  /\ stores' = created.committed
                     /\ req' = [req EXCEPT ![p].pc = "ac_check", ![p].sid = store.id,
                                           ![p].newStore = store.id,
                                           ![p].txStores = created.pending]
    /\ UNCHANGED <<reviews, idem, sent, images, blobs>>

(* 2. The duplicate check; an error rolls the transaction back *)
AutoCreateCheck(p) ==
    /\ req[p].pc = "ac_check"
    /\ LET r == req[p]
       IN  IF FindByUserAndStore(r.user, r.sid) # {}
           THEN /\ stores' = TxRollback(r.txStores)
                /\ req' = [req EXCEPT ![p] = HandlerDone(r, Problem(400, ErrDuplicateReview))]
           ELSE /\ stores' = stores
                /\ req' = [req EXCEPT ![p].pc = "ac_insert"]
    /\ UNCHANGED <<reviews, idem, sent, images, blobs>>

(* 3. The insert of the review and the end of the transaction: commit when
   the insert succeeded, rollback otherwise.  Rows of an open transaction
   are invisible to the other requests, so insert and commit are one step. *)
AutoCreateInsert(p) ==
    /\ req[p].pc = "ac_insert"
    /\ \E fault \in BOOLEAN :
        LET r == req[p]
            review == NewReview(NextReviewId, r.sid, r.user, r.in.body)
        IN  IF fault \/ ~ReviewCreateOk(review)
            THEN /\ stores' = TxRollback(r.txStores)
                 /\ reviews' = reviews
                 /\ req' = [req EXCEPT ![p] = HandlerDone(r, Problem(400, ErrDatabase))]
            ELSE /\ stores' = TxCommit(r.txStores)
                 /\ reviews' = reviews \cup {review}
                 /\ req' = [req EXCEPT ![p] = HandlerDone(r, Created(r.sid, review.id))]
    /\ UNCHANGED <<idem, sent, images, blobs>>

----------------------------------------------------------------------------
(* Moderation: ReviewService.Approve / Reject, StoreService.Approve / Reject.
   Each yields the error returned, the entity as the caller holds it
   afterwards, and whether the entity was saved. *)

(* variant: approval without the check of the current status *)
ReviewApproveAnyStatus(review) ==
    IF review.status = StatusApproved
    THEN [err |-> "", entity |-> review, saved |-> FALSE]
    ELSE [err |-> "", saved |-> TRUE,
          entity |-> [review EXCEPT !.status = StatusApproved, !.reason = <<>>]]

ReviewApprove(review) ==
    IF review.status = StatusApproved
    THEN [err |-> "", entity |-> review, saved |-> FALSE]
    ELSE IF review.status # StatusPending
    THEN [err |-> ErrReviewAlreadyProcessed, entity |-> review, saved |-> FALSE]
    ELSE [err |-> "", saved |-> TRUE,
          entity |-> [review EXCEPT !.status = StatusApproved, !.reason = <<>>]]

ReviewReject(review, reason) ==
    IF review.status = StatusRejected
    THEN [err |-> "", entity |-> review, saved |-> FALSE]
    ELSE IF review.status # StatusPending
    THEN [err |-> ErrReviewAlreadyProcessed, entity |-> review, saved |-> FALSE]
    ELSE [err |-> "", saved |-> TRUE,
          entity |-> [review EXCEPT !.status = StatusRejected, !.reason = TrimSpace(reason)]]

StoreApprove(store) ==
    IF store.status = StatusApproved
    THEN [err |-> "", entity |-> store, saved |-> FALSE]
    ELSE IF store.status # StatusPending
    THEN [err |-> ErrStoreAlreadyProcessed, entity |-> store, saved |-> FALSE]
    ELSE [err |-> "", saved |-> TRUE,
          entity |-> [store EXCEPT !.status = StatusApproved, !.reason = <<>>]]

(* variant: rejection without the check of the current status *)
StoreRejectAnyStatus(store, reason) ==
    IF store.status = StatusRejected
    THEN [err |-> "", entity |-> store, saved |-> FALSE]
    ELSE [err |-> "", saved |-> TRUE,
          entity |-> [store EXCEPT !.status = StatusRejected, !.reason = TrimSpace(reason)]]

StoreReject(store, reason) ==
    IF store.status = StatusRejected
    THEN [err |-> "", entity |-> store, saved |-> FALSE]
    ELSE IF store.status # StatusPending
    THEN [err |-> ErrStoreAlreadyProcessed, entity |-> store, saved |-> FALSE]
    ELSE [err |-> "", saved |-> TRUE,
          entity |-> [store EXCEPT !.status = StatusRejected, !.reason = TrimSpace(reason)]]

(* gorm Save: the row with the primary key of the entity is replaced *)
Save(table, entity) == { IF row.id = entity.id THEN entity ELSE row : row \in table }

Moderated(r, result, errStatus, storeID, reviewID) ==
    Respond([r EXCEPT !.ran = TRUE],
            IF result.err # "" THEN Problem(errStatus, result.err)
            ELSE [code |-> 200, body |-> [detail |-> "", store |-> storeID, review |-> reviewID]])

(* PUT /admin/reviews/{id}/status: ReviewAdminHandler.UpdateStatus *)
ReviewUpdateStatus(p, sc) ==
    /\ Arrive(p, sc)
    /\ \E id \in { r.id : r \in reviews }, op \in {StatusApproved, StatusRejected},
          reason \in RawReasons :
        LET r == Receive(sc, "review_status", Admin, NoKey,
                         [NoInput EXCEPT !.review = id, !.op = op, !.reason = reason], "done")
            found == ReviewFindByID(id)
        IN  IF found = {}
            THEN /\ req' = [req EXCEPT ![p] = Respond(r, Problem(404, ErrNotFound))]
                 /\ reviews' = reviews
            ELSE \E review \in found :
                    LET result == IF op = StatusApproved THEN ReviewApprove(review)
                                  ELSE ReviewReject(review, reason)
                    IN  /\ reviews' = IF result.saved THEN Save(reviews, result.entity) ELSE reviews
                        /\ req' = [req EXCEPT ![p] =
                               LET answered == Moderated(r, result, 409, NoId, id)
                               IN  IF op = StatusApproved /\ result.err = ""
                                   THEN [answered EXCEPT !.pc = "rating_read",
                                                         !.sid = review.store]
                                   ELSE answered]
    /\ UNCHANGED <<stores, idem, sent, images, blobs>>

(* Store.AverageRating is decimal(2,1): ratings are whole numbers and an
   average is kept in tenths *)
Precision == 10

RECURSIVE SumRatings(_)
SumRatings(rs) ==
    IF rs = {} THEN 0
    ELSE LET x == CHOOSE y \in rs : TRUE IN x.rating + SumRatings(rs \ {x})

(* variant: the aggregate is taken over the reviews of every status *)
AllRatedReviews(storeID) == { x \in LiveReviews : x.store = storeID }

(* The rows of the query of StoreService.UpdateStoreRating: store_id = ? AND
   status = approved, soft-deleted rows skipped *)
RatedReviews(storeID) ==
    { x \in LiveReviews : x.store = storeID /\ x.status = StatusApproved }

(* SELECT AVG(rating) and the count of the rows: the average rounded to the stored
   precision, zero over no row *)
Aggregate(rs) ==
    LET n == Cardinality(rs)
    IN  [averageRating |-> IF n = 0 THEN 0
                           ELSE (2 * Precision * SumRatings(rs) + n) \div (2 * n),
         totalReviews |-> n]

(* StoreRepository.UpdateAverageRating: UPDATE stores ... WHERE id = ? *)
UpdateAverageRating(storeID, averageRating, totalReviews) ==
    { IF s.id = storeID
      THEN [s EXCEPT !.averageRating = averageRating, !.totalReviews = totalReviews]
      ELSE s : s \in stores }

(* StoreService.UpdateStoreRating, called after a successful approval: the
   query *)
UpdateStoreRatingRead(p) ==
    /\ req[p].pc = "rating_read"
    /\ req' = [req EXCEPT ![p].pc = "rating_write",
                          ![p].result = Aggregate(RatedReviews(req[p].sid))]
    /\ UNCHANGED <<stores, reviews, idem, sent, images, blobs>>

(* variant: the error of the recompute is sent to the caller *)
RatingErrorSurfaced(r) ==
    [Respond(r, Problem(500, ErrDatabase)) EXCEPT !.ratingErr = TRUE]

(* ReviewAdminHandler.UpdateStatus: the error of UpdateStoreRating is
   dropped and the review is sent with 200 *)
RatingErrorIgnored(r) == [r EXCEPT !.pc = "done", !.ratingErr = TRUE]

(* StoreService.UpdateStoreRating returns an error: the query fails, or the
   update fails and changes no row *)
UpdateStoreRatingFails(p) ==
    /\ req[p].pc \in {"rating_read", "rating_write"}
    /\ req' = [req EXCEPT ![p] = RatingErrorIgnored(req[p])]
    /\ UNCHANGED <<stores, reviews, idem, sent, images, blobs>>

(* StoreService.UpdateStoreRating: the update of the store *)
UpdateStoreRatingWrite(p) ==
    /\ req[p].pc = "rating_write"
    /\ stores' = UpdateAverageRating(req[p].sid, req[p].result.averageRating,
                                     req[p].result.totalReviews)
    /\ req' = [req EXCEPT ![p].pc = "done"]
    /\ UNCHANGED <<reviews, idem, sent, images, blobs>>

(* PUT /admin/stores/{id}/approve: StoreAdminHandler.Approve *)
StoreAdminApprove(p, sc) ==
    /\ Arrive(p, sc)
    /\ \E store \in stores :
        LET r == Receive(sc, "store_approve", Admin, NoKey,
                         [NoInput EXCEPT !.store = store.id, !.op = StatusApproved], "done")
            result == StoreApprove(store)
        IN  /\ stores' = IF result.saved THEN Save(stores, result.entity) ELSE stores
            /\ req' = [req EXCEPT ![p] = Moderated(r, result, 400, store.id, NoId)]
    /\ UNCHANGED <<reviews, idem, sent, images, blobs>>

(* PUT /admin/stores/{id}/reject: StoreAdminHandler.Reject; the binding
   refuses an empty reason *)
StoreAdminReject(p, sc) ==
    /\ Arrive(p, sc)
    /\ \E store \in stores, reason \in RawReasons :
        LET r == Receive(sc, "store_reject", Admin, NoKey,
                         [NoInput EXCEPT !.store = store.id, !.op = StatusRejected,
                                         !.reason = reason], "done")
            result == StoreReject(store, reason)
        IN  IF reason = <<>>
            THEN /\ req' = [req EXCEPT ![p] = Respond(r, Problem(400, "reason is required"))]
                 /\ stores' = stores
            ELSE /\ stores' = IF result.saved THEN Save(stores, result.entity) ELSE stores
                 /\ req' = [req EXCEPT ![p] = Moderated(r, result, 400, store.id, NoId)]
    /\ UNCHANGED <<reviews, idem, sent, images, blobs>>

----------------------------------------------------------------------------
(* PATCH and DELETE /stores/{id}/reviews/{reviewId} *)

(* variant: the edit leaves the status as it was *)
UpdatedKeepingStatus(review, body) ==
    [review EXCEPT !.content = body.content, !.rating = body.rating]

(* ReviewService.Update: the fields of the request are copied and the status
   is reset to pending *)
Updated(review, body) ==
    [review EXCEPT !.content = body.content, !.rating = body.rating,
                   !.status = StatusPending]

(* ReviewService.Update: the author's edit puts the review back to pending *)
ReviewUpdate(p, sc) ==
    /\ Arrive(p, sc)
    /\ \E id \in { r.id : r \in reviews }, user \in sc.users, body \in sc.bodies :
        LET r == Receive(sc, "update", user, NoKey,
                         [NoInput EXCEPT !.review = id, !.body = body], "done")
            found == ReviewFindByID(id)
        IN  IF found = {}
            THEN /\ req' = [req EXCEPT ![p] = Respond(r, Problem(400, ErrNotFound))]
                 /\ reviews' = reviews
            ELSE \E review \in found :
                    IF review.author # user
                    THEN /\ req' = [req EXCEPT ![p] = Respond(r, Problem(400, ErrNotAuthorized))]
                         /\ reviews' = reviews
                    ELSE /\ reviews' = Save(reviews, Updated(review, body))
                         /\ req' = [req EXCEPT ![p] =
                                Respond([r EXCEPT !.ran = TRUE],
                                        [code |-> 200, body |-> [detail |-> "", store |-> NoId, review |-> id]])]
    /\ UNCHANGED <<stores, idem, sent, images, blobs>>

(* PUT /reviews/store/{id}: ReviewStoreHandler.UpdateReview, which sets the
   fields itself, clears the rejection reason and saves *)
UpdateReview(p, sc) ==
    /\ Arrive(p, sc)
    /\ \E id \in { r.id : r \in reviews }, user \in sc.users, body \in sc.bodies :
        LET r == Receive(sc, "update_review", user, NoKey,
                         [NoInput EXCEPT !.review = id, !.body = body], "done")
            found == ReviewFindByID(id)
        IN  IF found = {}
            THEN /\ req' = [req EXCEPT ![p] = Respond(r, Problem(404, ErrNotFound))]
                 /\ reviews' = reviews
            ELSE \E review \in found :
                    IF review.author # user
                    THEN /\ req' = [req EXCEPT ![p] = Respond(r, Problem(403, "not owner"))]
                         /\ reviews' = reviews
                    ELSE /\ reviews' = Save(reviews, [Updated(review, body) EXCEPT !.reason = <<>>])
                         /\ req' = [req EXCEPT ![p] =
                                Respond([r EXCEPT !.ran = TRUE],
                                        [code |-> 200, body |-> [detail |-> "", store |-> NoId, review |-> id]])]
    /\ UNCHANGED <<stores, idem, sent, images, blobs>>

(* The same two handlers step by step, as they run when requests are
   served concurrently: the entity is loaded, then checked and changed in
   memory and saved whole. *)

(* ReviewAdminHandler.UpdateStatus: h.reviews.Get(id) *)
ReviewStatusGet(p, sc) ==
    /\ Arrive(p, sc)
    /\ \E id \in { r.id : r \in reviews }, op \in {StatusApproved, StatusRejected},
          reason \in OneReason :
        LET r == Receive(sc, "review_status", Admin, NoKey,
                         [NoInput EXCEPT !.review = id, !.op = op, !.reason = reason],
                         "status_save")
            found == ReviewFindByID(id)
        IN  req' = [req EXCEPT ![p] =
                IF found = {} THEN Respond(r, Problem(404, ErrNotFound))
                ELSE [r EXCEPT !.loaded = found]]
    /\ UNCHANGED <<stores, reviews, idem, sent, images, blobs>>

(* ReviewAdminHandler.UpdateStatus: Approve or Reject of the loaded review,
   ReviewRepository.Update *)
ReviewStatusSave(p) ==
    /\ req[p].pc = "status_save"
    /\ \E review \in req[p].loaded :
        LET r == req[p]
            result == IF r.in.op = StatusApproved THEN ReviewApprove(review)
                      ELSE ReviewReject(review, r.in.reason)
            answered == Moderated(r, result, 409, NoId, review.id)
        IN  /\ reviews' = IF result.saved THEN Save(reviews, result.entity) ELSE reviews
            /\ req' = [req EXCEPT ![p] =
                   IF r.in.op = StatusApproved /\ result.err = ""
                   THEN [answered EXCEPT !.pc = "rating_read", !.sid = review.store]
                   ELSE answered]
    /\ UNCHANGED <<stores, idem, sent, images, blobs>>

(* ReviewService.Update: s.reviews.FindByID and the check of the author *)
ReviewUpdateFind(p, sc) ==
    /\ Arrive(p, sc)
    /\ \E id \in { r.id : r \in reviews }, user \in sc.users, body \in sc.bodies :
        LET r == Receive(sc, "update", user, NoKey,
                         [NoInput EXCEPT !.review = id, !.body = body], "update_save")
            found == ReviewFindByID(id)
        IN  req' = [req EXCEPT ![p] =
                IF found = {} THEN Respond(r, Problem(400, ErrNotFound))
                ELSE IF \E review \in found : review.author # user
                THEN Respond(r, Problem(400, ErrNotAuthorized))
                ELSE [r EXCEPT !.loaded = found]]
    /\ UNCHANGED <<stores, reviews, idem, sent, images, blobs>>

(* ReviewService.Update: the fields of the request and the status pending
   are set on the loaded review, ReviewRepository.Update *)
ReviewUpdateSave(p) ==
    /\ req[p].pc = "update_save"
    /\ \E review \in req[p].loaded :
        LET r == req[p]
        IN  /\ reviews' = Save(reviews, Updated(review, r.in.body))
            /\ req' = [req EXCEPT ![p] =
                   Respond([r EXCEPT !.ran = TRUE],
                           [code |-> 200,
                            body |-> [detail |-> "", store |-> NoId, review |-> review.id]])]
    /\ UNCHANGED <<stores, idem, sent, images, blobs>>

(* Preload("Images"): the rows of review_images of a review, soft-deleted
   rows skipped *)
LiveImages == { i \in images : ~i.deleted }
ImagesOf(reviewID) == { i \in LiveImages : i.review = reviewID }
StorageKeys(rows) == { i.key : i \in rows }

(* ReviewRepository.Delete: one transaction soft-deletes the images of the
   review, then the review *)
RepoDelete(id) ==
    [images |-> { IF i.review = id THEN [i EXCEPT !.deleted = TRUE] ELSE i : i \in images },
     reviews |-> { IF r.id = id THEN [r EXCEPT !.deleted = TRUE] ELSE r : r \in reviews }]

(* ReviewService.Delete past the ownership check: every file of the review
   is deleted from the storage, a failure (the keys of failed) is printed
   and skipped; then the rows are deleted, unless the database fails *)
ServiceDelete(p, r, review, failed, fault, errStatus) ==
    /\ blobs' = blobs \ (StorageKeys(ImagesOf(review.id)) \ failed)
    /\ IF fault
       THEN /\ reviews' = reviews
            /\ images' = images
            /\ req' = [req EXCEPT ![p] = Respond([r EXCEPT !.ran = TRUE],
                                                 Problem(errStatus, ErrDatabase))]
       ELSE /\ reviews' = RepoDelete(review.id).reviews
            /\ images' = RepoDelete(review.id).images
            /\ req' = [req EXCEPT ![p] = Respond([r EXCEPT !.ran = TRUE],
                                                 [code |-> 204, body |-> NoBody])]

(* DELETE /stores/{id}/reviews/{reviewId}: StoreHandler.DeleteReview and
   ReviewService.Delete *)
ReviewDelete(p, sc) ==
    /\ Arrive(p, sc)
    /\ \E id \in { r.id : r \in reviews }, user \in sc.users :
        LET r == Receive(sc, "delete", user, NoKey, [NoInput EXCEPT !.review = id], "done")
            found == ReviewFindByID(id)
        IN  IF found = {}
            THEN /\ req' = [req EXCEPT ![p] = Respond(r, Problem(400, ErrNotFound))]
                 /\ UNCHANGED <<reviews, images, blobs>>
            ELSE \E review \in found :
                    IF review.author # user
                    THEN /\ req' = [req EXCEPT ![p] = Respond(r, Problem(400, ErrNotAuthorized))]
                         /\ UNCHANGED <<reviews, images, blobs>>
                    ELSE \E failed \in SUBSET StorageKeys(ImagesOf(id)), fault \in BOOLEAN :
                            ServiceDelete(p, r, review, failed, fault, 400)
    /\ UNCHANGED <<stores, idem, sent>>

(* DELETE /admin/reviews/{id}: ReviewAdminHandler.Delete calls
   ReviewService.Delete in the name of the author *)
AdminDelete(p, sc) ==
    /\ Arrive(p, sc)
    /\ \E id \in { r.id : r \in reviews } :
        LET r == Receive(sc, "admin_delete", Admin, NoKey, [NoInput EXCEPT !.review = id], "done")
            found == ReviewFindByID(id)
        IN  IF found = {}
            THEN /\ req' = [req EXCEPT ![p] = Respond(r, Problem(404, ErrNotFound))]
                 /\ UNCHANGED <<reviews, images, blobs>>
            ELSE \E review \in found :
                    \E failed \in SUBSET StorageKeys(ImagesOf(id)), fault \in BOOLEAN :
                        ServiceDelete(p, r, review, failed, fault, 500)
    /\ UNCHANGED <<stores, idem, sent>>

(* ReviewService.DeleteReview, behind the admin handler that takes the
   review itself: the rows are deleted first, then the files one after the
   other, and the first failure of the storage is returned *)
DeleteReview(p, sc) ==
    /\ Arrive(p, sc)
    /\ \E id \in { r.id : r \in reviews } :
        LET r == Receive(sc, "delete_review", Admin, NoKey, [NoInput EXCEPT !.review = id], "done")
            found == ReviewFindByID(id)
            keys == StorageKeys(ImagesOf(id))
        IN  IF found = {}
            THEN /\ req' = [req EXCEPT ![p] = Respond(r, Problem(404, ErrNotFound))]
                 /\ UNCHANGED <<reviews, images, blobs>>
            ELSE \/ /\ UNCHANGED <<reviews, images, blobs>>
                    /\ req' = [req EXCEPT ![p] = Respond([r EXCEPT !.ran = TRUE],
                                                         Problem(500, ErrDatabase))]
                 \/ /\ reviews' = RepoDelete(id).reviews
                    /\ images' = RepoDelete(id).images
                    /\ \/ /\ blobs' = blobs \ keys
                          /\ req' = [req EXCEPT ![p] = Respond([r EXCEPT !.ran = TRUE],
                                                               [code |-> 204, body |-> NoBody])]
                       \/ \E failing \in keys :
                          \E removed \in SUBSET (keys \ {failing}) :
                             /\ blobs' = blobs \ removed
                             /\ req' = [req EXCEPT ![p] = Respond([r EXCEPT !.ran = TRUE],
                                                                  Problem(500, ErrStorage))]
    /\ UNCHANGED <<stores, idem, sent>>

(* StoreService.DeleteStore, step 1: the live rows of review_images joined
   to the reviews of the store *)
ImagesOfStore(storeID) ==
    { i \in LiveImages : \E x \in reviews : x.id = i.review /\ x.store = storeID }

(* StoreService.DeleteStore, step 2: one transaction soft-deletes the
   images of the live reviews of the store and those reviews, and deletes
   the row of the store (models.Store has no DeletedAt column); the
   transaction fails when rows of reviews still refer to the store *)
DeleteStoreTx(storeID) ==
    LET reviewIDs == { x.id : x \in { y \in LiveReviews : y.store = storeID } }
    IN  [images |-> { IF i.review \in reviewIDs THEN [i EXCEPT !.deleted = TRUE] ELSE i :
                        i \in images },
         reviews |-> { IF x.id \in reviewIDs THEN [x EXCEPT !.deleted = TRUE] ELSE x :
                         x \in reviews },
         stores |-> { s \in stores : s.id # storeID }]

(* DELETE /admin/stores/{id}: StoreAdminHandler.Delete and
   StoreService.DeleteStore.  The files are deleted after the transaction
   has committed; a failure of the storage (the keys of failed) is printed
   and skipped. *)
DeleteStore(p, sc) ==
    /\ Arrive(p, sc)
    /\ \E store \in stores :
        LET r == Receive(sc, "delete_store", Admin, NoKey, [NoInput EXCEPT !.store = store.id],
                         "done")
            imagesToDelete == ImagesOfStore(store.id)
            tx == DeleteStoreTx(store.id)
        IN  \/ /\ UNCHANGED <<stores, reviews, images, blobs>>
               /\ req' = [req EXCEPT ![p] = Respond([r EXCEPT !.ran = TRUE],
                                                    Problem(500, ErrDatabase))]
            \/ \E failed \in SUBSET StorageKeys(imagesToDelete) :
                  /\ ~RestrictsStoreDelete(store.id)
                  /\ stores' = tx.stores
                  /\ reviews' = tx.reviews
                  /\ images' = tx.images
                  /\ blobs' = blobs \ (StorageKeys(imagesToDelete) \ failed)
                  /\ req' = [req EXCEPT ![p] = Respond([r EXCEPT !.ran = TRUE],
                                                       [code |-> 204, body |-> NoBody])]
    /\ UNCHANGED <<idem, sent>>

(* POST /reviews/{id}/images: ReviewHandler.UploadImage and
   ReviewService.StoreImage: the file is saved, then its row is inserted *)
NextImageId == Cardinality(images) + 1

UploadImage(p, sc) ==
    /\ Arrive(p, sc)
    /\ Cardinality(images) < MaxImages
    /\ \E id \in { r.id : r \in reviews }, user \in sc.users :
        LET r == Receive(sc, "upload", user, NoKey, [NoInput EXCEPT !.review = id], "done")
            found == ReviewFindByID(id)
            image == [id |-> NextImageId, review |-> id, key |-> <<id, NextImageId>>,
                      deleted |-> FALSE]
        IN  IF found = {}
            THEN /\ req' = [req EXCEPT ![p] = Respond(r, Problem(404, ErrNotFound))]
                 /\ UNCHANGED <<images, blobs>>
            ELSE \E review \in found :
                    IF review.author # user
                    THEN /\ req' = [req EXCEPT ![p] = Respond(r, Problem(403, "not owner"))]
                         /\ UNCHANGED <<images, blobs>>
                    ELSE \/ /\ UNCHANGED <<images, blobs>>
                            /\ req' = [req EXCEPT ![p] = Respond(r, Problem(500, ErrStorage))]
                         \/ /\ blobs' = blobs \cup {image.key}
                            /\ images' = images \cup {image}
                            /\ req' = [req EXCEPT ![p] =
                                   Respond([r EXCEPT !.ran = TRUE],
                                           [code |-> 201, body |-> [NoBody EXCEPT !.review = id]])]
    /\ UNCHANGED <<stores, reviews, idem, sent>>

----------------------------------------------------------------------------
(* Read endpoints *)

(* The caller as the authentication middleware leaves it in the context:
   no role and no user_id for an anonymous caller *)
Anonymous == [role |-> "", user |-> ""]
Callers(sc) ==
    {Anonymous} \cup { [role |-> "user", user |-> u] : u \in sc.users }
                \cup { [role |-> "admin", user |-> Admin] }

(* query parameter status *)
StatusParams == {"", StatusPending, StatusApproved, StatusRejected}

(* StoreRepository.SearchStores: status IN ? when statuses are given *)
SearchStoresQuery(statuses) ==
    { s \in stores : statuses = {} \/ s.status \in statuses }

(* StoreService.ListStores *)
ListStores(status) ==
    SearchStoresQuery(IF status # "" THEN {status} ELSE {})

(* variant: the status asked for is honoured for every caller *)
StatusForAnyRole(role, status) == status

(* StoreHandler.SearchStores: only an administrator chooses the status *)
StatusForRole(role, status) ==
    IF role # "admin" THEN StatusApproved ELSE status

(* ReviewRepository.List: soft-deleted rows are skipped *)
ReviewList(opts) ==
    { r \in LiveReviews :
        /\ opts.statuses = {} \/ r.status \in opts.statuses
        /\ opts.author = "" \/ r.author = opts.author
        /\ opts.store = NoId \/ r.store = opts.store }

(* ReviewService.ListPublic / ListByStore / ListByAuthor / ListPending *)
ListPublic == ReviewList([statuses |-> {StatusApproved}, author |-> "", store |-> NoId])
ListByStore(storeID) ==
    ReviewList([statuses |-> {StatusApproved}, author |-> "", store |-> storeID])
ListByAuthor(authorID) == ReviewList([statuses |-> {}, author |-> authorID, store |-> NoId])
ListPending == ReviewList([statuses |-> {StatusPending}, author |-> "", store |-> NoId])

Listed(r, list) ==
    Respond([r EXCEPT !.ran = TRUE, !.list = list], [code |-> 200, body |-> NoBody])

ReadInput(caller, status) == [NoInput EXCEPT !.role = caller.role, !.status = status]

(* GET /stores: StoreHandler.SearchStores *)
SearchStores(p, sc) ==
    /\ Arrive(p, sc)
    /\ \E caller \in Callers(sc), status \in StatusParams :
        LET r == Receive(sc, "search_stores", caller.user, NoKey, ReadInput(caller, status), "done")
        IN  req' = [req EXCEPT ![p] = Listed(r, ListStores(StatusForRole(caller.role, status)))]
    /\ UNCHANGED <<stores, reviews, idem, sent, images, blobs>>

(* GET /stores/{id}: StoreHandler.GetStore *)
GetStore(p, sc) ==
    /\ Arrive(p, sc)
    /\ \E caller \in Callers(sc), store \in stores :
        LET r == Receive(sc, "get_store", caller.user, NoKey,
                         [ReadInput(caller, "") EXCEPT !.store = store.id], "done")
        IN  req' = [req EXCEPT ![p] =
                IF store.status # StatusApproved /\ caller.role # "admin"
                THEN Respond(r, Problem(404, ErrNotFound))
                ELSE Listed(r, {store})]
    /\ UNCHANGED <<stores, reviews, idem, sent, images, blobs>>

(* GET /stores/{id}/reviews: StoreHandler.GetStoreReviews *)
GetStoreReviews(p, sc) ==
    /\ Arrive(p, sc)
    /\ \E caller \in Callers(sc), status \in StatusParams, store \in stores :
        LET r == Receive(sc, "store_reviews", caller.user, NoKey,
                         [ReadInput(caller, status) EXCEPT !.store = store.id], "done")
        IN  req' = [req EXCEPT ![p] = Listed(r, ListByStore(store.id))]
    /\ UNCHANGED <<stores, reviews, idem, sent, images, blobs>>

(* GET /reviews: ReviewHandler.ListPublic *)
ReviewsPublic(p, sc) ==
    /\ Arrive(p, sc)
    /\ \E caller \in Callers(sc), status \in StatusParams :
        LET r == Receive(sc, "list_public", caller.user, NoKey, ReadInput(caller, status), "done")
        IN  req' = [req EXCEPT ![p] = Listed(r, ListPublic)]
    /\ UNCHANGED <<stores, reviews, idem, sent, images, blobs>>

(* GET /reviews/{id}: ReviewHandler.Detail *)
ReviewDetail(p, sc) ==
    /\ Arrive(p, sc)
    /\ \E caller \in Callers(sc), id \in { x.id : x \in reviews } :
        LET r == Receive(sc, "detail", caller.user, NoKey,
                         [ReadInput(caller, "") EXCEPT !.review = id], "done")
            found == ReviewFindByID(id)
        IN  IF found = {}
            THEN req' = [req EXCEPT ![p] = Respond(r, Problem(404, ErrNotFound))]
            ELSE \E review \in found :
                    req' = [req EXCEPT ![p] =
                        IF /\ review.status # StatusApproved
                           /\ caller.role # "admin"
                           /\ (caller = Anonymous \/ review.author # caller.user)
                        THEN Respond(r, Problem(403, ErrNotAccessible))
                        ELSE Listed(r, {review})]
    /\ UNCHANGED <<stores, reviews, idem, sent, images, blobs>>

(* GET /reviews/me: ReviewHandler.MyReviews, behind RequireAuth *)
MyReviews(p, sc) ==
    /\ Arrive(p, sc)
    /\ \E caller \in Callers(sc) \ {Anonymous}, status \in StatusParams :
        LET r == Receive(sc, "my_reviews", caller.user, NoKey, ReadInput(caller, status), "done")
        IN  req' = [req EXCEPT ![p] = Listed(r, ListByAuthor(caller.user))]
    /\ UNCHANGED <<stores, reviews, idem, sent, images, blobs>>

(* GET /admin/reviews/pending: ReviewAdminHandler.Pending, behind
   RequireRoles("admin") *)
ReviewsPending(p, sc) ==
    /\ Arrive(p, sc)
    /\ \E status \in StatusParams :
        LET r == Receive(sc, "list_pending", Admin, NoKey,
                         ReadInput([role |-> "admin", user |-> Admin], status), "done")
        IN  req' = [req EXCEPT ![p] = Listed(r, ListPending)]
    /\ UNCHANGED <<stores, reviews, idem, sent, images, blobs>>

----------------------------------------------------------------------------
(* Pagination *)

(* Go's int and int64 wrap around in two's complement.  They are 64 bits
   wide; the model keeps IntBits bits. *)
MaxInt == 2^(IntBits - 1) - 1
MinInt == 0 - 2^(IntBits - 1)
WrapInt(x) == ((x - MinInt) % 2^IntBits) + MinInt

(* Go's integer division truncates toward zero *)
GoDiv(a, b) == IF a >= 0 THEN a \div b ELSE 0 - ((0 - a) \div b)

(* a query parameter: absent, text that is not a number, or a number (the
   small ones and the two ends of the range) *)
QueryParams ==
    {[kind |-> "absent", n |-> 0], [kind |-> "text", n |-> 0]}
        \cup { [kind |-> "int", n |-> i] : i \in {MinInt, MaxInt} \cup ((0 - 1)..MaxParam) }

(* strconv.Atoi(c.DefaultQuery(name, def)) with its error dropped: text
   that is not a number gives 0 *)
AtoiDefaultQuery(param, def) ==
    CASE param.kind = "absent" -> def
      [] param.kind = "text" -> 0
      [] OTHER -> param.n

DefaultPage == 1
DefaultLimit == 10

(* services.ParseListFilters *)
ParseListFilters(page, pageSize) ==
    LET pg == AtoiDefaultQuery(page, DefaultPage)
        limit == AtoiDefaultQuery(pageSize, DefaultLimit)
    IN  [Page |-> IF pg <= 0 THEN DefaultPage ELSE pg,
         Limit |-> IF limit <= 0 THEN DefaultLimit ELSE limit]

(* ORDER BY created_at DESC, the default order: ids are given in the order
   of creation *)
RECURSIVE OrderedDesc(_)
OrderedDesc(rows) ==
    IF rows = {} THEN <<>>
    ELSE LET last == CHOOSE x \in rows : \A y \in rows : y.id <= x.id
         IN  <<last.id>> \o OrderedDesc(rows \ {last})

(* LIMIT and OFFSET as ReviewRepository.List and StoreRepository.SearchStores
   apply them: gorm writes an OFFSET only when it is positive *)
LimitOffset(ordered, limit, offset) ==
    LET skipped == IF offset > 0
                   THEN IF offset >= Len(ordered) THEN <<>>
                        ELSE SubSeq(ordered, offset + 1, Len(ordered))
                   ELSE ordered
    IN  IF limit > 0 /\ limit < Len(skipped) THEN SubSeq(skipped, 1, limit) ELSE skipped

(* (total + limit - 1) / limit in int64 *)
TotalPages(total, limit) == GoDiv(WrapInt(WrapInt(total + limit) - 1), limit)

(* buildListOptions *)
buildListOptions(filters) ==
    [Limit |-> filters.Limit, Offset |-> WrapInt(WrapInt(filters.Page - 1) * filters.Limit)]

(* ReviewService.listWithPagination over the rows that ReviewRepository.List
   selects *)
listWithPagination(opts, filters, rows) ==
    LET limit == IF opts.Limit <= 0 THEN DefaultLimit ELSE opts.Limit
        pg == IF filters.Page <= 0 THEN DefaultPage ELSE filters.Page
        total == Cardinality(rows)
    IN  [data |-> LimitOffset(OrderedDesc(rows), opts.Limit, opts.Offset),
         page |-> pg, pageSize |-> limit, total |-> total,
         totalPages |-> TotalPages(total, limit)]

(* StoreService.ListStores over the rows that StoreRepository.SearchStores
   selects *)
ListStoresPaged(filters, rows) ==
    LET offset == WrapInt(WrapInt(filters.Page - 1) * filters.Limit)
        total == Cardinality(rows)
    IN  [data |-> LimitOffset(OrderedDesc(rows), filters.Limit, offset),
         page |-> filters.Page, pageSize |-> filters.Limit, total |-> total,
         totalPages |-> TotalPages(total, filters.Limit)]

PagedResponse(r, result) ==
    Respond([r EXCEPT !.ran = TRUE, !.paged = result], [code |-> 200, body |-> NoBody])

(* GET /stores?page=&page_size=: StoreHandler.SearchStores *)
SearchStoresPage(p, sc) ==
    /\ Arrive(p, sc)
    /\ \E caller \in Callers(sc), page \in QueryParams, pageSize \in QueryParams :
        LET r == Receive(sc, "stores_page", caller.user, NoKey,
                         [ReadInput(caller, "") EXCEPT !.page = page, !.pageSize = pageSize],
                         "done")
            filters == ParseListFilters(page, pageSize)
        IN  req' = [req EXCEPT ![p] =
                PagedResponse(r, ListStoresPaged(filters, ListStores(StatusForRole(caller.role, ""))))]
    /\ UNCHANGED <<stores, reviews, idem, sent, images, blobs>>

(* GET /admin/reviews/pending?page=&page_size=: ReviewAdminHandler.Pending *)
ReviewsPendingPage(p, sc) ==
    /\ Arrive(p, sc)
    /\ \E page \in QueryParams, pageSize \in QueryParams :
        LET r == Receive(sc, "pending_page", Admin, NoKey,
                         [ReadInput([role |-> "admin", user |-> Admin], "")
                            EXCEPT !.page = page, !.pageSize = pageSize], "done")
            filters == ParseListFilters(page, pageSize)
        IN  req' = [req EXCEPT ![p] =
                PagedResponse(r, listWithPagination(buildListOptions(filters), filters,
                                                    ListPending))]
    /\ UNCHANGED <<stores, reviews, idem, sent, images, blobs>>

----------------------------------------------------------------------------
(* The response leaves the server. *)
Finish(p) ==
    /\ req[p].pc = "done"
    /\ req' = [req EXCEPT ![p] = Idle]
    /\ UNCHANGED <<stores, reviews, idem, sent, images, blobs>>

----------------------------------------------------------------------------
(* Specifications *)

Scenario(limit, keys, users, names, bodies, maxStores, maxReviews) ==
    [limit |-> limit, keys |-> keys, users |-> users, names |-> names, bodies |-> bodies,
     maxStores |-> maxStores, maxReviews |-> maxReviews]

ReviewModerate(p, sc) ==
    \/ ReviewUpdateStatus(p, sc)
    \/ UpdateStoreRatingRead(p)
    \/ UpdateStoreRatingWrite(p)

(* ReviewAdminHandler.UpdateStatus with a database that may fail under
   UpdateStoreRating *)
ReviewModerateFaulty(p, sc) ==
    \/ ReviewModerate(p, sc)
    \/ UpdateStoreRatingFails(p)

CreateStore(p, sc) ==
    \/ CreateStoreFind(p, sc)
    \/ CreateStoreInsert(p)

Submit(p, sc) ==
    \/ ReceiveSubmit(p, sc)
    \/ SubmitCheck(p)
    \/ SubmitInsert(p)

AutoCreate(p, sc) ==
    \/ ReceiveAutoCreate(p, sc)
    \/ AutoCreateFind(p)
    \/ AutoCreateCheck(p)
    \/ AutoCreateInsert(p)

Idempotency(p) ==
    \/ IdempotencyGet(p)
    \/ IdempotencyCreate(p)
    \/ IdempotencyUpdate(p)

(* Spec: store creation, submission and review deletion, one request at a
   time, none carrying an Idempotency-Key *)
One == Scenario(1, {NoKey}, Users, RawNames, Bodies, MaxStores, MaxReviews)

Next ==
    \/ CreateStore(1, One)
    \/ Submit(1, One)
    \/ AutoCreate(1, One)
    \/ ReviewDelete(1, One)
    \/ Finish(1)

Spec == Init /\ [][Next]_vars

(* SpecMod: moderation of stores and reviews and the author's edits, one
   request at a time *)
ModOne == Scenario(1, {NoKey}, Users, {<<"b">>}, Bodies, ModStores, ModReviews)

NextMod ==
    \/ CreateStore(1, ModOne)
    \/ Submit(1, ModOne)
    \/ ReviewModerate(1, ModOne)
    \/ StoreAdminApprove(1, ModOne)
    \/ StoreAdminReject(1, ModOne)
    \/ ReviewUpdate(1, ModOne)
    \/ ReviewDelete(1, ModOne)
    \/ Finish(1)

SpecMod == Init /\ [][NextMod]_vars

(* SpecIdem: submissions with and without an Idempotency-Key, one request
   at a time *)
IdemOne == Scenario(1, Keys \cup {NoKey}, Users, SameName, Bodies, IdemStores, IdemReviews)

NextIdem ==
    \/ CreateStore(1, IdemOne)
    \/ Submit(1, IdemOne)
    \/ AutoCreate(1, IdemOne)
    \/ Idempotency(1)
    \/ Finish(1)

SpecIdem == Init /\ [][NextIdem]_vars

(* SpecConc: store creation and submission served concurrently by the
   processes of Procs *)
Many == Scenario(Cardinality(Procs), {NoKey}, Users, SameName, OneBody, ConcStores, ConcReviews)

NextConc ==
    \E p \in Procs :
        \/ CreateStore(p, Many)
        \/ Submit(p, Many)
        \/ AutoCreate(p, Many)
        \/ Finish(p)

SpecConc == Init /\ [][NextConc]_vars

(* SpecRead: creation, submission, moderation and the read endpoints, one
   request at a time *)
ReadOne == Scenario(1, {NoKey}, Users, {<<"b">>}, OneBody, ReadStores, ReadReviews)

Read(p, sc) ==
    \/ SearchStores(p, sc)
    \/ GetStore(p, sc)
    \/ GetStoreReviews(p, sc)
    \/ ReviewsPublic(p, sc)
    \/ ReviewDetail(p, sc)
    \/ MyReviews(p, sc)
    \/ ReviewsPending(p, sc)

NextRead ==
    \/ CreateStore(1, ReadOne)
    \/ Submit(1, ReadOne)
    \/ ReviewModerate(1, ReadOne)
    \/ StoreAdminApprove(1, ReadOne)
    \/ StoreAdminReject(1, ReadOne)
    \/ Read(1, ReadOne)
    \/ Finish(1)

SpecRead == Init /\ [][NextRead]_vars

(* SpecRating: submission, moderation, edits and deletion of the reviews of
   one store, one request at a time *)
RatingOne == Scenario(1, {NoKey}, Users, {<<"b">>}, Bodies, RatingStores, RatingReviews)

NextRating ==
    \/ CreateStore(1, RatingOne)
    \/ Submit(1, RatingOne)
    \/ ReviewModerate(1, RatingOne)
    \/ ReviewUpdate(1, RatingOne)
    \/ ReviewDelete(1, RatingOne)
    \/ Finish(1)

SpecRating == Init /\ [][NextRating]_vars

(* SpecAggregate: as SpecRating, with the deletion of a review by an
   administrator *)
AggregateOne == Scenario(1, {NoKey}, Users, {<<"b">>}, Bodies, AggregateStores, AggregateReviews)

NextAggregate ==
    \/ CreateStore(1, AggregateOne)
    \/ Submit(1, AggregateOne)
    \/ ReviewModerate(1, AggregateOne)
    \/ ReviewUpdate(1, AggregateOne)
    \/ ReviewDelete(1, AggregateOne)
    \/ AdminDelete(1, AggregateOne)
    \/ Finish(1)

SpecAggregate == Init /\ [][NextAggregate]_vars

(* SpecOrphan: submissions, for stores that exist and for ids that no store
   carries, served concurrently with the creation and deletion of stores *)
OrphanMany == Scenario(Cardinality(Procs), {NoKey}, {"u1"}, {<<"b">>}, OneBody,
                       OrphanStores, OrphanReviews)

NextOrphan ==
    \E p \in Procs :
        \/ CreateStore(p, OrphanMany)
        \/ Submit(p, OrphanMany)
        \/ ReceiveSubmitUnknownStore(p, OrphanMany)
        \/ DeleteStore(p, OrphanMany)
        \/ Finish(p)

SpecOrphan == Init /\ [][NextOrphan]_vars

(* SpecDecide: the decisions of administrators on the reviews of one store,
   served concurrently *)
DecideMany == Scenario(Cardinality(Procs), {NoKey}, {"u1"}, {<<"r">>}, OneBody,
                       DecideStores, DecideReviews)

ReviewDecide(p, sc) ==
    \/ ReviewStatusGet(p, sc)
    \/ ReviewStatusSave(p)
    \/ UpdateStoreRatingRead(p)
    \/ UpdateStoreRatingWrite(p)

NextDecide ==
    \E p \in Procs :
        \/ CreateStore(p, DecideMany)
        \/ Submit(p, DecideMany)
        \/ ReviewDecide(p, DecideMany)
        \/ Finish(p)

SpecDecide == Init /\ [][NextDecide]_vars

(* SpecEditRace: as SpecDecide, with the edits of the author *)
EditMany == Scenario(Cardinality(Procs), {NoKey}, {"u1"}, {<<"r">>}, Bodies,
                     EditStores, EditReviews)

ReviewEdit(p, sc) ==
    \/ ReviewUpdateFind(p, sc)
    \/ ReviewUpdateSave(p)

NextEditRace ==
    \E p \in Procs :
        \/ CreateStore(p, EditMany)
        \/ Submit(p, EditMany)
        \/ ReviewDecide(p, EditMany)
        \/ ReviewEdit(p, EditMany)
        \/ Finish(p)

SpecEditRace == Init /\ [][NextEditRace]_vars

(* SpecReason: moderation with reasons and the author's edits on both
   routes, one request at a time *)
ReasonOne == Scenario(1, {NoKey}, {"u1"}, {<<"b">>}, OneBody, ReasonStores, ReasonReviews)

NextReason ==
    \/ CreateStore(1, ReasonOne)
    \/ Submit(1, ReasonOne)
    \/ ReviewModerate(1, ReasonOne)
    \/ StoreAdminApprove(1, ReasonOne)
    \/ StoreAdminReject(1, ReasonOne)
    \/ ReviewUpdate(1, ReasonOne)
    \/ UpdateReview(1, ReasonOne)
    \/ ReviewDelete(1, ReasonOne)
    \/ Finish(1)

SpecReason == Init /\ [][NextReason]_vars

(* SpecBind: submissions with ratings at and beyond the ends of the range,
   one request at a time *)
BindOne == Scenario(1, {NoKey}, Users, {<<"b">>}, EdgeBodies, BindStores, BindReviews)

NextBind ==
    \/ CreateStore(1, BindOne)
    \/ Submit(1, BindOne)
    \/ AutoCreate(1, BindOne)
    \/ Finish(1)

SpecBind == Init /\ [][NextBind]_vars

(* SpecOrigin: creation of stores and reviews by a user and by the
   administrator, on the user routes and on the admin route, and moderation,
   one request at a time *)
OriginOne == Scenario(1, {NoKey}, {"u1", Admin}, {<<"b">>}, OneBody, OriginStores, OriginReviews)

NextOrigin ==
    \/ CreateStore(1, OriginOne)
    \/ Submit(1, OriginOne)
    \/ AutoCreate(1, OriginOne)
    \/ ReviewModerate(1, OriginOne)
    \/ StoreAdminApprove(1, OriginOne)
    \/ StoreAdminReject(1, OriginOne)
    \/ ReviewUpdate(1, OriginOne)
    \/ Finish(1)

SpecOrigin == Init /\ [][NextOrigin]_vars

(* SpecDelete: reviews with images, deleted by their author or by the
   administrator, one request at a time *)
DeleteOne == Scenario(1, {NoKey}, Users, {<<"b">>}, OneBody, DeleteStores, DeleteReviews)

NextDelete ==
    \/ CreateStore(1, DeleteOne)
    \/ Submit(1, DeleteOne)
    \/ UploadImage(1, DeleteOne)
    \/ ReviewDelete(1, DeleteOne)
    \/ AdminDelete(1, DeleteOne)
    \/ DeleteReview(1, DeleteOne)
    \/ DeleteStore(1, DeleteOne)
    \/ Finish(1)

SpecDelete == Init /\ [][NextDelete]_vars

(* SpecPage: stores and reviews are created and listed page by page, one
   request at a time *)
PageOne == Scenario(1, {NoKey}, {"u1"}, {<<"a">>, <<"b">>, <<"c">>}, OneBody,
                    PageStores, PageReviews)

NextPage ==
    \/ CreateStore(1, PageOne)
    \/ Submit(1, PageOne)
    \/ SearchStoresPage(1, PageOne)
    \/ ReviewsPendingPage(1, PageOne)
    \/ Finish(1)

SpecPage == Init /\ [][NextPage]_vars

(* SpecRatingFault: as SpecRating, with a recompute that may fail *)
FaultOne == Scenario(1, {NoKey}, Users, {<<"b">>}, Bodies, FaultStores, FaultReviews)

NextRatingFault ==
    \/ CreateStore(1, FaultOne)
    \/ Submit(1, FaultOne)
    \/ ReviewModerateFaulty(1, FaultOne)
    \/ ReviewUpdate(1, FaultOne)
    \/ Finish(1)

SpecRatingFault == Init /\ [][NextRatingFault]_vars

(* SpecRatingConc: submission and moderation of the reviews of one store
   served concurrently *)
RatingMany == Scenario(Cardinality(Procs), {NoKey}, Users, {<<"b">>}, Bodies,
                       RatingConcStores, RatingConcReviews)

NextRatingConc ==
    \E p \in Procs :
        \/ CreateStore(p, RatingMany)
        \/ Submit(p, RatingMany)
        \/ ReviewModerate(p, RatingMany)
        \/ Finish(p)

SpecRatingConc == Init /\ [][NextRatingConc]_vars

(* SpecExpiry: keyed submissions of one user, one request at a time, while
   time passes beyond the expiry of the records *)
ExpiryOne == Scenario(1, Keys \cup {NoKey}, {"u1"}, {<<"a">>}, Bodies, ExpiryStores, ExpiryReviews)

NextExpiry ==
    \/ CreateStore(1, ExpiryOne)
    \/ Submit(1, ExpiryOne)
    \/ AutoCreate(1, ExpiryOne)
    \/ Idempotency(1)
    \/ Expire
    \/ Finish(1)

SpecExpiry == Init /\ [][NextExpiry]_vars

(* SpecKeyConc: keyed submissions of one user served concurrently *)
KeyMany == Scenario(Cardinality(Procs), Keys \cup {NoKey}, {"u1"}, {<<"a">>}, OneBody,
                    KeyStores, KeyReviews)

NextKeyConc ==
    \/ \E p \in Procs :
          \/ CreateStore(p, KeyMany)
          \/ Submit(p, KeyMany)
          \/ AutoCreate(p, KeyMany)
          \/ Idempotency(p)
          \/ Finish(p)
    \/ Expire

SpecKeyConc == Init /\ [][NextKeyConc]_vars

----------------------------------------------------------------------------
(* Properties *)

Spaces(k) == [i \in 1..k |-> " "]

(* n is raw without its leading and trailing white space *)
IsTrimOf(n, raw) ==
    /\ n = <<>> \/ (n[1] # " " /\ n[Len(n)] # " ")
    /\ \E i, j \in 0..Len(raw) : raw = Spaces(i) \o n \o Spaces(j)

Terminal == {StatusApproved, StatusRejected}
ModerationKinds == {"review_status", "store_approve", "store_reject"}

Row(table, id) == CHOOSE x \in table : x.id = id

(* What a moderation call decided for an entity found in state old *)
Decided(r, old, new, already) ==
    /\ (r.in.op = StatusApproved /\ old.status = StatusPending) =>
          /\ r.code = 200
          /\ new = [old EXCEPT !.status = StatusApproved, !.reason = <<>>]
    /\ (r.in.op = StatusApproved /\ old.status = StatusApproved) =>
          r.code = 200 /\ new = old
    /\ (r.in.op = StatusApproved /\ old.status = StatusRejected) =>
          r.code # 200 /\ r.body.detail = already /\ new = old
    /\ (r.in.op = StatusRejected /\ old.status = StatusPending) =>
          /\ r.code = 200
          /\ IsTrimOf(new.reason, r.in.reason)
          /\ new = [old EXCEPT !.status = StatusRejected, !.reason = new.reason]
    /\ (r.in.op = StatusRejected /\ old.status = StatusRejected) =>
          r.code = 200 /\ new = old
    /\ (r.in.op = StatusRejected /\ old.status = StatusApproved) =>
          r.code # 200 /\ r.body.detail = already /\ new = old

(* C1: a moderation call on a pending entity moves it to the decision
   (approve clears rejection_reason, reject stores the trimmed reason); on an
   entity already in the decision asked for it succeeds and changes
   nothing; on an entity in the other decision it fails with
   AlreadyProcessed and changes nothing.  Reviews and stores alike. *)
ModerationContract ==
    \A p \in Procs :
        LET r == req[p] IN
        req[p].pc = "done" =>
            /\ r.kind = "review_status" =>
                  \A old \in { x \in r.before.reviews : x.id = r.in.review /\ ~x.deleted } :
                      Decided(r, old, Row(reviews, old.id), ErrReviewAlreadyProcessed)
            /\ (r.kind = "store_approve" \/ (r.kind = "store_reject" /\ r.in.reason # <<>>)) =>
                  \A old \in { x \in r.before.stores : x.id = r.in.store } :
                      Decided(r, old, Row(stores, old.id), ErrStoreAlreadyProcessed)

(* a rejection of a pending review whose reason carried white space *)
ModerationContractWitness ==
    \E p \in Procs :
        /\ req[p].pc = "done" /\ req[p].kind = "review_status"
        /\ req[p].in.op = StatusRejected /\ req[p].in.reason = <<" ", "r", " ">>
        /\ \E old \in req[p].before.reviews :
              /\ old.id = req[p].in.review /\ old.status = StatusPending
              /\ Row(reviews, old.id).status = StatusRejected
              /\ Row(reviews, old.id).reason = <<"r">>

(* C2: no approve or reject call moves a review or a store out of approved
   or rejected: the decision already reached repeated is a success, the
   opposite decision fails with AlreadyProcessed, and in both cases the row
   (status and rejection_reason included) stays as it was. *)
TerminalIsAbsorbing ==
    [][ \A p \in Procs :
          (req[p].pc = "idle" /\ req'[p].kind \in ModerationKinds) =>
              /\ \A x \in reviews : x.status \in Terminal => x \in reviews'
              /\ \A x \in stores : x.status \in Terminal => x \in stores'
              /\ req'[p].kind = "review_status" =>
                    \A x \in LiveReviews :
                        (x.id = req'[p].in.review /\ x.status \in Terminal) =>
                            IF req'[p].in.op = x.status
                            THEN req'[p].code = 200
                            ELSE req'[p].body.detail = ErrReviewAlreadyProcessed
              /\ (req'[p].kind = "store_approve"
                    \/ (req'[p].kind = "store_reject" /\ req'[p].in.reason # <<>>)) =>
                    \A x \in stores :
                        (x.id = req'[p].in.store /\ x.status \in Terminal) =>
                            IF req'[p].in.op = x.status
                            THEN req'[p].code = 200
                            ELSE req'[p].body.detail = ErrStoreAlreadyProcessed
      ]_vars

(* a rejection refused for an approved store *)
TerminalIsAbsorbingWitness ==
    \E p \in Procs :
        /\ req[p].pc = "done" /\ req[p].kind = "store_reject"
        /\ req[p].body.detail = ErrStoreAlreadyProcessed
        /\ \E old \in req[p].before.stores :
              old.id = req[p].in.store /\ old.status = StatusApproved /\ old \in stores

(* The stores a submission is for: the one named in the path, or the ones
   carrying the trimmed name and address of an auto-create submission *)
TargetStores(r) ==
    IF r.kind = "submit" THEN { r.in.store }
    ELSE { s.id : s \in { x \in r.before.stores :
                            IsTrimOf(x.name, r.in.name) /\ IsTrimOf(x.address, r.in.address) } }

AlreadyReviewed(r) ==
    \E x \in r.before.reviews : ~x.deleted /\ x.author = r.user /\ x.store \in TargetStores(r)

(* C3: once an author has a non-deleted review of a store, a further
   submission of that author for that store, by store id or by auto-create,
   fails with Conflict (409) whatever its content and rating, and no review
   is added. *)
DuplicateSubmissionIsConflict ==
    \A p \in Procs :
        (req[p].pc = "done" /\ req[p].kind \in {"submit", "auto"} /\ AlreadyReviewed(req[p])) =>
            req[p].code = 409 /\ reviews = req[p].before.reviews

(* C4: in every state reached by concurrent submissions, an author has at
   most one non-deleted review of a store. *)
OneReviewPerAuthorAndStore ==
    \A x, y \in LiveReviews : (x.author = y.author /\ x.store = y.store) => x = y

(* an auto-create submission has inserted its review while a submission by
   store id of the same author for the same store is past its duplicate
   check *)
OneReviewPerAuthorAndStoreWitness ==
    \E p, q \in Procs :
        /\ req[p].kind = "submit" /\ req[p].pc = "sub_insert"
        /\ req[q].kind = "auto" /\ req[q].pc = "done" /\ req[q].code = 201
        /\ req[q].user = req[p].user /\ req[q].sid = req[p].in.store

SameKey(s, t) == s.name = t.name /\ s.address = t.address

ValidStoreFields(r) ==
    \A f \in {r.in.name, r.in.address, r.in.category} : \E c \in 1..Len(f) : f[c] # " "

MatchesBefore(r) ==
    { x \in r.before.stores : IsTrimOf(x.name, r.in.name) /\ IsTrimOf(x.address, r.in.address) }

(* C5: requests served one after the other never leave two stores with the
   same name and address: a creation whose trimmed name and address are
   those of a store reuses that store on the auto-create path and fails
   with Conflict (409) on the explicit path, and adds no store. *)
StoreCreatedOnce ==
    /\ \A s, t \in stores : SameKey(s, t) => s.id = t.id
    /\ \A p \in Procs :
          LET r == req[p] IN
          (r.pc = "done" /\ MatchesBefore(r) # {}) =>
              /\ (r.kind = "create" /\ ValidStoreFields(r)) =>
                    r.code = 409 /\ stores = r.before.stores
              /\ r.kind = "auto" =>
                    /\ stores = r.before.stores
                    /\ r.code = 201 => \E x \in MatchesBefore(r) : r.body.store = x.id

(* an explicit creation refused for a store that an auto-create submission
   had made, the names differing in white space only *)
StoreCreatedOnceWitness ==
    \E p \in Procs :
        /\ req[p].pc = "done" /\ req[p].kind = "create" /\ req[p].code = 409
        /\ \E x \in MatchesBefore(req[p]) : x.autoCreated /\ x.name # req[p].in.name

(* C6: the pair (name, address) is unique among the stores in every state,
   also when creations and auto-create submissions are served
   concurrently. *)
StoreKeyIsUnique ==
    \A s, t \in stores : SameKey(s, t) => s = t

(* C7: a successful auto-create submission either reuses the store that
   carries the trimmed name and address, leaving the stores as they were,
   or adds exactly one store with the trimmed name and address, pending,
   auto_created and created_by the submitter; the review it adds is pending
   and references that store. *)
AutoCreateFindsOrCreates ==
    \A p \in Procs :
        LET r == req[p] IN
        (r.pc = "done" /\ r.kind = "auto" /\ r.code = 201) =>
            /\ IF MatchesBefore(r) # {}
               THEN /\ stores = r.before.stores
                    /\ \E x \in MatchesBefore(r) : r.body.store = x.id
               ELSE \E s \in stores :
                      /\ stores = r.before.stores \cup {s}
                      /\ s \notin r.before.stores
                      /\ s.id = r.body.store
                      /\ IsTrimOf(s.name, r.in.name) /\ IsTrimOf(s.address, r.in.address)
                      /\ s.status = StatusPending /\ s.autoCreated /\ s.createdBy = r.user
            /\ \E x \in reviews :
                  /\ reviews = r.before.reviews \cup {x}
                  /\ x \notin r.before.reviews
                  /\ x.id = r.body.review /\ x.store = r.body.store
                  /\ x.author = r.user /\ x.status = StatusPending

(* a submission whose store name carried white space created the store *)
AutoCreateFindsOrCreatesWitness ==
    \E p \in Procs :
        /\ req[p].pc = "done" /\ req[p].kind = "auto" /\ req[p].code = 201
        /\ req[p].in.name = <<" ", "a">> /\ req[p].newStore # NoId
        /\ \E s \in stores : s.id = req[p].newStore /\ s.name = <<"a">>

(* C8: a failed auto-create submission leaves the stores and the reviews as
   they were before the request, whether it had created its store or found
   it. *)
FailedAutoCreateLeavesNoTrace ==
    \A p \in Procs :
        (req[p].pc = "done" /\ req[p].kind = "auto" /\ req[p].code # 201) =>
            stores = req[p].before.stores /\ reviews = req[p].before.reviews

(* the insert of the review failed after the request had created its store *)
FailedAutoCreateLeavesNoTraceWitness ==
    \E p \in Procs :
        /\ req[p].pc = "done" /\ req[p].kind = "auto" /\ req[p].code # 201
        /\ req[p].newStore # NoId /\ req[p].body.detail = ErrDatabase

(* C9: a store made by an auto-create submission is visible only together
   with the review of that submission. *)
AutoCreatedStoreComesWithReview ==
    \A s \in stores :
        s.autoCreated => \E x \in reviews : x.store = s.id /\ x.author = s.createdBy

(* a request reads the stores while another holds a store it has created
   and not yet committed *)
AutoCreatedStoreComesWithReviewWitness ==
    \E p, q \in Procs :
        /\ req[p].txStores # {} /\ req[p].pc = "ac_insert"
        /\ req[q].pc = "ac_find"

Completed(r) ==
    { k \in r.before.idem :
        k.key = r.key /\ k.status = IdempotencyKeyStatusCompleted /\ ~k.expired }

(* C10: a request whose Idempotency-Key has a completed record is answered
   with the status code and body of the first response, its handler does
   not run and no review is added: the review of the first response is the
   only one the two submissions leave. *)
CompletedKeyIsReplayed ==
    \A p \in Procs :
        LET r == req[p] IN
        (r.pc = "done" /\ r.key # NoKey /\ Completed(r) # {}) =>
            /\ ~r.ran
            /\ \E f \in sent : f.key = r.key /\ f.code = r.code /\ f.body = r.body
            /\ reviews = r.before.reviews /\ stores = r.before.stores
            /\ Cardinality({ x \in reviews : x.id = r.body.review }) = 1

(* the second of two submissions with the same key is answered 201 *)
CompletedKeyIsReplayedWitness ==
    \E p \in Procs :
        /\ req[p].pc = "done" /\ req[p].key # NoKey /\ Completed(req[p]) # {}
        /\ req[p].code = 201 /\ req[p].kind = "submit"

(* The steps of a keyed request between its lookup of the key and the end
   of the middleware *)
HandlerSteps == {"sub_check", "sub_insert", "ac_find", "ac_check", "ac_insert"}
Executing == {"idem_create", "idem_update"} \cup HandlerSteps

(* C11: a request whose Idempotency-Key belongs to a request that is still
   being executed, wherever that one stands, is answered 429 at once and
   its handler does not run. *)
InFlightKeyIsRejected ==
    [][ \A p \in Procs :
          ( /\ req[p].pc = "idem_get"
            /\ req'[p].pc # "idem_get"
            /\ \E q \in Procs \ {p} : req[q].key = req[p].key /\ req[q].pc \in Executing ) =>
              req'[p].pc = "done" /\ req'[p].code = 429 /\ ~req'[p].ran
      ]_vars

(* C12: whatever the interleaving of the requests that carry one
   Idempotency-Key, the handler runs at most once for the key. *)
HandlerRunsOncePerKey ==
    \A k \in Keys :
        Cardinality({ f \in sent : f.key = k })
          + Cardinality({ p \in Procs : req[p].key = k /\ req[p].pc \in HandlerSteps \cup {"idem_update"} })
          <= 1

(* two requests passed the lookup of the key together: one is refused by
   the unique index while the handler of the other runs *)
HandlerRunsOncePerKeyWitness ==
    \E p, q \in Procs :
        /\ req[p].key # NoKey /\ req[q].key = req[p].key
        /\ req[p].pc = "done" /\ req[p].body.detail = ErrCreateKey /\ ~req[p].ran
        /\ req[q].pc \in HandlerSteps

KeyRecordsBefore(r) == { k \in r.before.idem : k.key = r.key }

(* C13: a request whose Idempotency-Key has only an expired record is served
   as if the key were new: its handler runs and the key gets a fresh
   record. *)
ExpiredKeyIsFresh ==
    \A p \in Procs :
        LET r == req[p] IN
        ( /\ r.pc = "done" /\ r.key # NoKey
          /\ KeyRecordsBefore(r) # {}
          /\ \A k \in KeyRecordsBefore(r) : k.expired ) =>
            r.ran /\ \E k \in idem : k.key = r.key /\ ~k.expired

(* C14: what a request with an Idempotency-Key receives does not depend on
   the records of other users: it is neither answered with the response
   stored for another user nor refused as in progress because of another
   user's record. *)
KeyIsScopedToUser ==
    \A p \in Procs :
        LET r == req[p] IN
        (r.pc = "done" /\ r.key # NoKey /\ ~r.ran) =>
            \A k \in KeyRecordsBefore(r) :
                (k.user # r.user /\ ~k.expired) =>
                    /\ r.code # 429
                    /\ ~(k.status = IdempotencyKeyStatusCompleted
                            /\ r.code = k.code /\ r.body = k.body)

(* C15: a request matches a stored record only when token and body hash
   are both equal: a request of the same user that reuses the token with
   another body is not answered with the response stored for the first
   body. *)
KeyIsTokenAndBodyHash ==
    \A p \in Procs :
        LET r == req[p] IN
        (r.pc = "done" /\ r.key # NoKey /\ ~r.ran) =>
            \A k \in KeyRecordsBefore(r) :
                ( /\ k.user = r.user /\ ~k.expired
                  /\ k.status = IdempotencyKeyStatusCompleted
                  /\ k.hash # hashRequestBody(RawBody(r)) ) =>
                    ~(r.code = k.code /\ r.body = k.body)

(* C16: what GET /stores, GET /stores/{id}/reviews and GET /reviews return
   to a caller who is no administrator is approved, whatever status the
   caller asks for, and GET /stores/{id} answers such a caller 404 for a
   store that is not approved. *)
PublicReadsAreApproved ==
    \A p \in Procs :
        LET r == req[p] IN
        (r.pc = "done" /\ r.in.role # "admin") =>
            /\ r.kind = "search_stores" =>
                  r.list \subseteq stores /\ \A e \in r.list : e.status = StatusApproved
            /\ r.kind \in {"store_reviews", "list_public"} =>
                  r.list \subseteq reviews /\ \A e \in r.list : e.status = StatusApproved
            /\ r.kind = "get_store" =>
                  \A e \in stores :
                      (e.id = r.in.store /\ e.status # StatusApproved) =>
                          r.code = 404 /\ r.list = {}

(* an anonymous caller asked GET /reviews for pending reviews and got the
   approved one, a pending one being there *)
PublicReadsAreApprovedWitness ==
    \E p \in Procs :
        /\ req[p].pc = "done" /\ req[p].kind = "list_public"
        /\ req[p].in.role = "" /\ req[p].in.status = StatusPending
        /\ req[p].list # {}
        /\ \E x \in LiveReviews : x.status = StatusPending

(* C17: a pending review is not in what GET /reviews returns to an anonymous
   caller; GET /reviews/{id} returns it to its author and refuses it to
   every other caller who is no administrator; an administrator finds it
   in every listing of reviews whatever status is asked for. *)
PendingReviewVisibility ==
    \A p \in Procs :
        LET r == req[p] IN
        r.pc = "done" =>
            \A x \in LiveReviews :
                x.status = StatusPending =>
                    /\ (r.kind = "list_public" /\ r.in.role = "") => x \notin r.list
                    /\ (r.kind = "detail" /\ r.in.review = x.id /\ r.in.role # "admin") =>
                          IF r.in.role = "user" /\ r.user = x.author
                          THEN r.code = 200 /\ r.list = {x}
                          ELSE r.code # 200 /\ r.list = {}
                    /\ (r.in.role = "admin"
                          /\ (r.kind \in {"list_public", "list_pending"}
                                \/ (r.kind = "store_reviews" /\ r.in.store = x.store))) =>
                          x \in r.list

(* C18: after a successful update by its author a review is pending,
   whatever its status was, and is in no public listing; a review that is
   not approved becomes approved only by an administrator's approval of
   that review. *)
EditedReviewIsPendingAgain ==
    /\ [](\A p \in Procs :
            LET r == req[p] IN
            (r.pc = "done" /\ r.kind = "update" /\ r.code = 200) =>
                \E x \in reviews :
                    /\ x.id = r.in.review
                    /\ x.status = StatusPending
                    /\ x \notin ListPublic
                    /\ x \notin ListByStore(x.store))
    /\ [][ \A x \in reviews, y \in reviews' :
             (x.id = y.id /\ x.status # StatusApproved /\ y.status = StatusApproved) =>
                 \E p \in Procs :
                     /\ req[p].pc = "idle"
                     /\ req'[p].kind = "review_status"
                     /\ req'[p].user = Admin
                     /\ req'[p].in.review = x.id
                     /\ req'[p].in.op = StatusApproved ]_vars

(* the author edited a review that was approved *)
EditedReviewIsPendingAgainWitness ==
    \E p \in Procs :
        /\ req[p].pc = "done" /\ req[p].kind = "update" /\ req[p].code = 200
        /\ \E old \in req[p].before.reviews :
              /\ old.id = req[p].in.review
              /\ old.status = StatusApproved
              /\ old \in { x \in req[p].before.reviews : ~x.deleted }

(* avg, in tenths, is the mean of the ratings of rs rounded to a tenth *)
IsMeanOf(avg, rs) ==
    LET n == Cardinality(rs)
        d == n * avg - Precision * SumRatings(rs)
    IN  IF n = 0 THEN avg = 0
        ELSE 2 * (IF d < 0 THEN 0 - d ELSE d) <= n

(* C19: when an approval has been answered, the store of the review holds
   the number of its approved, non-deleted reviews in total_reviews and
   the mean of their ratings, to the stored precision, in average_rating:
   a review that has been edited back to pending or deleted since it was
   counted is in neither. *)
ApprovalRecomputesRating ==
    \A p \in Procs :
        LET r == req[p] IN
        (r.pc = "done" /\ r.kind = "review_status" /\ r.in.op = StatusApproved
           /\ r.code = 200) =>
            \A x \in reviews, s \in stores :
                (x.id = r.in.review /\ s.id = x.store) =>
                    LET counted == { y \in reviews :
                                       /\ y.store = s.id
                                       /\ y.status = StatusApproved
                                       /\ ~y.deleted }
                    IN  /\ s.totalReviews = Cardinality(counted)
                        /\ IsMeanOf(s.averageRating, counted)

(* the second of two reviews with different ratings was approved *)
ApprovalRecomputesRatingWitness ==
    \E p \in Procs :
        /\ req[p].pc = "done" /\ req[p].kind = "review_status"
        /\ req[p].in.op = StatusApproved /\ req[p].code = 200
        /\ \E s \in stores, x \in LiveReviews, y \in LiveReviews :
              /\ x.store = s.id /\ y.store = s.id
              /\ x.status = StatusApproved /\ y.status = StatusApproved
              /\ x.rating < y.rating
              /\ s.totalReviews = 2
              /\ 2 * s.averageRating = Precision * (x.rating + y.rating)

(* an approval was answered after a review counted before had been deleted
   or edited *)
RecomputeDropsReview ==
    \E p \in Procs :
        /\ req[p].pc = "done" /\ req[p].kind = "review_status"
        /\ req[p].in.op = StatusApproved /\ req[p].code = 200
        /\ \E s \in stores, old \in req[p].before.stores, y \in reviews :
              /\ s.id = old.id /\ y.store = s.id
              /\ y.id # req[p].in.review
              /\ (y.deleted \/ y.status = StatusPending)
              /\ old.totalReviews = 1 /\ s.totalReviews = 1
              /\ old.averageRating # s.averageRating

(* C20: once the approvals served concurrently have all finished their
   recompute, every store holds in total_reviews the number of its approved
   reviews and in average_rating the mean of their ratings. *)
ConcurrentApprovalsKeepRating ==
    (\A p \in Procs : req[p].pc \notin {"rating_read", "rating_write"}) =>
        \A s \in stores :
            LET counted == { y \in reviews :
                               /\ y.store = s.id
                               /\ y.status = StatusApproved
                               /\ ~y.deleted }
            IN  /\ s.totalReviews = Cardinality(counted)
                /\ IsMeanOf(s.averageRating, counted)

(* C21: when the recompute that follows an approval fails, the caller gets
   the success response, the review is approved and the store keeps the
   average_rating and total_reviews it had. *)
FailedRecomputeIsSwallowed ==
    \A p \in Procs :
        LET r == req[p] IN
        (r.pc = "done" /\ r.kind = "review_status" /\ r.ratingErr) =>
            /\ r.code = 200 /\ r.body.detail = ""
            /\ \E x \in reviews : x.id = r.in.review /\ x.status = StatusApproved
            /\ stores = r.before.stores

(* the recompute failed after a pending review was approved *)
FailedRecomputeIsSwallowedWitness ==
    \E p \in Procs :
        /\ req[p].pc = "done" /\ req[p].kind = "review_status" /\ req[p].ratingErr
        /\ \E old \in req[p].before.reviews :
              old.id = req[p].in.review /\ old.status = StatusPending

(* C22: a submission, by store id or by auto-create, with a rating from 0
   to 5, both included, is not refused as invalid; one with a rating below
   0 or above 5 is refused with a validation error and adds no review and
   no store. *)
RatingBoundsAreChecked ==
    \A p \in Procs :
        LET r == req[p] IN
        (r.pc = "done" /\ r.kind \in {"submit", "auto"}) =>
            /\ (r.in.body.rating >= 0 /\ r.in.body.rating <= 5) =>
                  r.body.detail \notin {ErrInvalidPayload, ErrInvalidAutoCreate}
            /\ (r.in.body.rating < 0 \/ r.in.body.rating > 5) =>
                  /\ r.code = 400
                  /\ r.body.detail \in {ErrInvalidPayload, ErrInvalidAutoCreate}
                  /\ reviews = r.before.reviews /\ stores = r.before.stores

Ids(table) == { x.id : x \in table }

(* a review, or a store, becomes approved only by the administrator's
   approval of it, a store also by its creation on the admin route *)
ApprovedByDecisionOnly ==
    /\ \A y \in reviews' :
          (y.status = StatusApproved
             /\ \A x \in reviews : x.id = y.id => x.status # StatusApproved) =>
              \E p \in Procs :
                  /\ req[p].pc = "idle" /\ req'[p].kind = "review_status"
                  /\ req'[p].user = Admin /\ req'[p].in.review = y.id
                  /\ req'[p].in.op = StatusApproved
                  /\ \E x \in reviews : x.id = y.id /\ x.status = StatusPending
    /\ \A t \in stores' :
          (t.status = StatusApproved
             /\ \E s \in stores : s.id = t.id /\ s.status # StatusApproved) =>
              \E p \in Procs :
                  /\ req[p].pc = "idle" /\ req'[p].kind = "store_approve"
                  /\ req'[p].user = Admin /\ req'[p].in.store = t.id
                  /\ \E s \in stores : s.id = t.id /\ s.status = StatusPending

(* C23, as stated: every review is created pending; a store is created
   approved when its creator is the administrator and pending otherwise;
   nothing becomes approved but by an administrator's approval. *)
CreatedStatusFollowsCreator ==
    [][ /\ \A y \in reviews' : y.id \notin Ids(reviews) => y.status = StatusPending
        /\ \A t \in stores' :
              t.id \notin Ids(stores) =>
                  t.status = IF t.createdBy = Admin THEN StatusApproved ELSE StatusPending
        /\ ApprovedByDecisionOnly ]_vars

(* C23, amended: every review is created pending; a store is created
   approved on the admin route and pending on POST /stores and on
   auto-create, whoever the caller is; nothing becomes approved but by an
   administrator's approval. *)
CreatedStatusFollowsRoute ==
    [][ /\ \A y \in reviews' : y.id \notin Ids(reviews) => y.status = StatusPending
        /\ \A t \in stores' :
              t.id \notin Ids(stores) =>
                  \E p \in Procs :
                      /\ req[p].pc \in {"cs_insert", "ac_find", "ac_insert"}
                      /\ t.createdBy = req[p].user
                      /\ t.status = IF req[p].kind = "create" /\ req[p].in.isAdmin
                                    THEN StatusApproved ELSE StatusPending
        /\ ApprovedByDecisionOnly ]_vars

(* the administrator created a store with POST /stores and it is pending *)
CreatedStatusFollowsRouteWitness ==
    \E p \in Procs :
        /\ req[p].pc = "done" /\ req[p].kind = "create" /\ req[p].code = 201
        /\ req[p].user = Admin /\ ~req[p].in.isAdmin
        /\ \E t \in stores : t.id = req[p].body.store /\ t.status = StatusPending

(* C24: a rejection of a review or of a store whose reason is missing,
   empty or white space only is refused with a validation error and
   changes nothing, and every rejected review or store carries a reason
   that is not empty. *)
RejectionNeedsReason ==
    /\ \A p \in Procs :
          LET r == req[p] IN
          ( /\ r.pc = "done" /\ r.kind \in {"review_status", "store_reject"}
            /\ r.in.op = StatusRejected
            /\ \A c \in 1..Len(r.in.reason) : r.in.reason[c] = " " ) =>
              /\ r.code = 400
              /\ reviews = r.before.reviews /\ stores = r.before.stores
    /\ \A x \in reviews \cup stores : x.status = StatusRejected => x.reason # <<>>

(* C25: an auto-create submission of an author who already has a review of
   the store it resolves to is answered Conflict (409), not with the 400 of
   a validation error. *)
AutoCreateDuplicateIsConflict ==
    \A p \in Procs :
        LET r == req[p] IN
        ( /\ r.pc = "done" /\ r.kind = "auto"
          /\ BindReviewForNewStore(r.in)
          /\ AlreadyReviewed(r) ) =>
            r.code = 409 /\ r.code # 400

(* C26: an update or a delete of a review asked by a user who is not its
   author fails with Forbidden (403) and leaves the review as it was. *)
OnlyAuthorEditsReview ==
    \A p \in Procs :
        LET r == req[p] IN
        (r.pc = "done" /\ r.kind \in {"update", "delete"}) =>
            \A x \in r.before.reviews :
                (x.id = r.in.review /\ ~x.deleted /\ x.author # r.user) =>
                    r.code = 403 /\ x \in reviews

DeleteKinds == {"delete", "admin_delete", "delete_review"}

(* C27: an image row is deleted exactly when its review is, and a delete of
   a review asked by its author or by the administrator succeeds and
   deletes the rows whatever the storage answers, unless the database
   fails. *)
ReviewDeletedWithImages ==
    /\ \A i \in images : \A x \in reviews : x.id = i.review => (i.deleted <=> x.deleted)
    /\ \A p \in Procs :
          LET r == req[p] IN
          (r.pc = "done" /\ r.kind \in DeleteKinds /\ r.body.detail # ErrDatabase) =>
              \A x \in r.before.reviews :
                  ( /\ x.id = r.in.review /\ ~x.deleted
                    /\ r.kind = "delete" => x.author = r.user ) =>
                      /\ r.code = 204
                      /\ \E y \in reviews : y.id = x.id /\ y.deleted

(* C28: DeleteStore soft-deletes the store, its reviews and their images
   together or changes nothing, deletes files only when the rows have been
   deleted, and succeeds whatever the storage answers. *)
StoreDeletedInOneTransaction ==
    \A p \in Procs :
        LET r == req[p]
            mine == { x \in r.before.reviews : x.store = r.in.store /\ ~x.deleted }
        IN
        (r.pc = "done" /\ r.kind = "delete_store") =>
            IF r.code = 204
            THEN /\ \E s \in stores : s.id = r.in.store
                 /\ StoreFindByID(r.in.store) = {}
                 /\ \A x \in mine : \E y \in reviews : y.id = x.id /\ y.deleted
                 /\ \A i \in images : (\E x \in mine : x.id = i.review) => i.deleted
            ELSE /\ r.body.detail = ErrDatabase
                 /\ stores = r.before.stores /\ reviews = r.before.reviews
                 /\ images = r.before.images /\ blobs = r.before.blobs

(* The page that a list of total rows gives for the parameters page and
   pageSize: the defaults 1 and 10 when absent or not positive, the rows
   from offset (page - 1) * pageSize, at most pageSize of them *)
EffectiveParam(param, def) ==
    IF param.kind = "int" /\ param.n > 0 THEN param.n ELSE def
Ceil(total, size) == IF total = 0 THEN 0 ELSE ((total - 1) \div size) + 1
PageOf(ordered, pg, size) ==
    LET from == (pg - 1) * size
    IN  IF from >= Len(ordered) THEN <<>>
        ELSE SubSeq(ordered, from + 1, IF from + size < Len(ordered) THEN from + size
                                       ELSE Len(ordered))
PageKinds == {"stores_page", "pending_page"}
ListedRows(r) ==
    IF r.kind = "stores_page" THEN ListStores(StatusForRole(r.in.role, "")) ELSE ListPending

(* C29: every list response reports the effective page and pageSize,
   totalPages = ceil(total / pageSize), and holds the rows of the ordered
   result from offset (page - 1) * pageSize, at most pageSize of them. *)
ListResponseIsPaginated ==
    \A p \in Procs :
        LET r == req[p]
            pg == EffectiveParam(r.in.page, 1)
            size == EffectiveParam(r.in.pageSize, 10)
            ordered == OrderedDesc(ListedRows(r))
        IN  (r.pc = "done" /\ r.kind \in PageKinds) =>
                /\ r.paged.page = pg /\ r.paged.pageSize = size
                /\ r.paged.total = Len(ordered)
                /\ r.paged.totalPages = Ceil(Len(ordered), size)
                /\ Len(r.paged.data) <= size
                /\ r.paged.data = PageOf(ordered, pg, size)

(* C30: whenever no request is being served, every store holds in
   total_reviews the number of its approved, non-deleted reviews and in
   average_rating their mean, whatever submissions, decisions, edits and
   deletions came before. *)
RatingFollowsReviews ==
    (\A p \in Procs : req[p].pc = "idle") =>
        \A s \in stores :
            LET approved == { y \in LiveReviews : y.store = s.id /\ y.status = StatusApproved }
            IN  /\ s.totalReviews = Cardinality(approved)
                /\ IsMeanOf(s.averageRating, approved)

(* C31: a record of idempotency_keys is inserted in_progress and unexpired
   before the handler of its request has run; it is never removed; it
   leaves in_progress only for completed, only when the request that
   inserted it has run its handler to a 2xx response, and then holds the
   code and body of that response; once completed its status, code and body
   never change. *)
KeyRecordLifecycle ==
    [][ /\ \A o \in idem : \E k \in idem' : k.key = o.key /\ k.user = o.user /\ k.hash = o.hash
        /\ \A k \in idem' :
              IF \A o \in idem : o.key # k.key
              THEN /\ k.status = IdempotencyKeyStatusInProgress
                   /\ ~k.expired
                   /\ \E p \in Procs :
                         /\ req[p].pc = "idem_create" /\ req[p].key = k.key
                         /\ req'[p].pc = HandlerEntry(req[p].kind) /\ ~req'[p].ran
              ELSE \A o \in idem :
                     o.key = k.key =>
                        /\ o.status = IdempotencyKeyStatusCompleted =>
                              k.status = o.status /\ k.code = o.code /\ k.body = o.body
                        /\ (o.status = IdempotencyKeyStatusInProgress /\ k.status # o.status) =>
                              /\ k.status = IdempotencyKeyStatusCompleted
                              /\ \E p \in Procs :
                                    /\ req[p].pc = "idem_update" /\ req[p].key = k.key
                                    /\ req[p].ran
                                    /\ req[p].code >= 200 /\ req[p].code < 300
                                    /\ k.code = req[p].code /\ k.body = req[p].body
                                    /\ req'[p].pc = "done"
                                    /\ req'[p].code = k.code /\ req'[p].body = k.body
      ]_vars

KeyRecordLifecycleWitness ==
    \E k \in idem, p \in Procs :
        /\ k.status = IdempotencyKeyStatusCompleted /\ k.expired
        /\ req[p].pc = "done" /\ req[p].key = k.key /\ req[p].ran
        /\ req[p].code = 201 /\ k.code = 201 /\ k.body = req[p].body
        /\ \E q \in Procs : q # p /\ req[q].key = k.key /\ req[q].pc = "done" /\ req[q].code = 500

(* C32: every non-deleted review refers to a row of stores; a submission
   for a store id that no store carries, or whose store is deleted while the
   submission is served, creates no review. *)
LiveReviewHasStore ==
    /\ \A x \in LiveReviews : \E s \in stores : s.id = x.store
    /\ \A p \in Procs :
          (req[p].pc = "done" /\ req[p].kind = "submit" /\ StoreFindByID(req[p].in.store) = {}) =>
              /\ req[p].code # 201
              /\ \A x \in reviews : x.store # req[p].in.store

LiveReviewHasStoreWitness ==
    \E p \in Procs :
        /\ req[p].pc = "done" /\ req[p].kind = "submit" /\ req[p].ran
        /\ req[p].code = 409 /\ req[p].body.detail = ErrDatabase
        /\ StoreFindByID(req[p].in.store) = {}
        /\ \E q \in Procs :
              /\ req[q].pc = "done" /\ req[q].kind = "delete_store" /\ req[q].code = 204
              /\ req[q].in.store = req[p].in.store

(* C33: of an approval and a rejection of the same review served at the
   same time, one is answered 200 and the other 409 already processed, and
   the review holds the status that was answered 200. *)
OneDecisionWins ==
    \A p \in Procs, q \in Procs :
        LET a == req[p]
            b == req[q]
        IN  ( /\ a.pc = "done" /\ a.kind = "review_status" /\ a.in.op = StatusApproved
              /\ b.pc = "done" /\ b.kind = "review_status" /\ b.in.op = StatusRejected
              /\ a.in.review = b.in.review ) =>
                /\ (a.code = 200 /\ b.code = 409) \/ (a.code = 409 /\ b.code = 200)
                /\ \A x \in reviews :
                      x.id = a.in.review =>
                          x.status = (IF a.code = 200 THEN StatusApproved ELSE StatusRejected)

(* C34: the step that saves an administrator's decision changes the status
   and the rejection reason of the review only: every review keeps the
   content and the rating stored before the step, those of the author's
   latest submission or update, also when an update of the author is served
   at the same time. *)
DecisionKeepsContent ==
    [][ (\E p \in Procs : req[p].pc = "status_save" /\ req'[p].pc # "status_save") =>
            \A x \in reviews :
                \E y \in reviews' :
                    /\ y.id = x.id
                    /\ y.content = x.content /\ y.rating = x.rating
                    /\ y.author = x.author /\ y.store = x.store
      ]_vars

(* C35: a review or a store carries a rejection reason only while its
   status is rejected. *)
ReasonOnlyWhenRejected ==
    /\ \A x \in reviews : x.reason # <<>> => x.status = StatusRejected
    /\ \A x \in stores : x.reason # <<>> => x.status = StatusRejected

(* C36: only non-deleted reviews stand in the way of a submission: when a
   submission has passed the duplicate check, its author having no
   non-deleted review of the store (a deleted one perhaps), the insert of
   the pending review is accepted. *)
DeletedReviewAllowsResubmission ==
    \A p \in Procs :
        LET r == req[p]
        IN  ( /\ r.pc = "sub_insert"
              /\ FindByUserAndStore(r.user, r.in.store) = {}
              /\ StoreFindByID(r.in.store) # {} ) =>
                ReviewCreateOk(NewReview(NextReviewId, r.in.store, r.user, r.in.body))

(* C37: only a 2xx response is stored: when the handler of a keyed request
   has answered with another status, the end of the middleware leaves the
   records as they are and the record of the key in progress; and a request
   that finds an unexpired record in progress whose handler answered with
   such a status is answered 429 and its handler does not run. *)
FailedResponseIsNotStored ==
    [][ \A p \in Procs :
          /\ ( /\ req[p].pc = "idem_update"
               /\ req'[p].pc = "done"
               /\ ~(req[p].code >= 200 /\ req[p].code < 300) ) =>
                 /\ idem' = idem
                 /\ \A k \in idem' : k.key = req[p].key =>
                        k.status = IdempotencyKeyStatusInProgress
          /\ ( /\ req[p].pc = "idem_get"
               /\ req'[p].pc # "idem_get"
               /\ \E k \in idem : /\ k.key = req[p].key
                                   /\ ~k.expired
                                   /\ k.status = IdempotencyKeyStatusInProgress
               /\ \E f \in sent : /\ f.key = req[p].key
                                   /\ ~(f.code >= 200 /\ f.code < 300) ) =>
                 /\ req'[p].pc = "done"
                 /\ req'[p].code = 429
                 /\ ~req'[p].ran
                 /\ idem' = idem /\ reviews' = reviews /\ stores' = stores
      ]_vars

(* a submission with a key whose first response was a conflict or a
   validation error has been refused as in progress *)
FailedResponseIsNotStoredWitness ==
    \E p \in Procs :
        /\ req[p].pc = "done" /\ req[p].key # NoKey
        /\ req[p].code = 429 /\ ~req[p].ran
        /\ \E f \in sent : f.key = req[p].key /\ ~(f.code >= 200 /\ f.code < 300)
        /\ \E k \in idem : /\ k.key = req[p].key
                            /\ k.status = IdempotencyKeyStatusInProgress

(* C38: a file is removed from the storage only after the delete of its
   row of review_images has committed: the file of every image row that is
   not deleted is in the storage, also after a delete of a review or of a
   store that the database has refused. *)
LiveImageHasBlob ==
    \A i \in images : ~i.deleted => i.key \in blobs

====
